---- MODULE Spec2Model ----
(***************************************************************************)
(* The privacy-processing pipeline of src/handlers.py: query_archives,     *)
(* apply_filters, redact_names, add_differential_privacy and the           *)
(* orchestrator combined_query_with_privacy, over a day-partitioned        *)
(* archive store.                                                          *)
(*                                                                         *)
(* Encoding of Python values.  A JSON value is a record [t, n, s]: t is    *)
(* the run-time type tag, n the numeric payload and s the text payload (a  *)
(* sequence of one-character strings).  An int or bool carries its value   *)
(* in n; a float carries twice its value in n, so halves are exact.  A     *)
(* mapping (dict) is [isMap |-> TRUE, f |-> function from keys to values]; *)
(* a decoded JSON entry that is not an object has isMap = FALSE.           *)
(* A (body, status) pair is [status, body], the body being a record whose  *)
(* field keys is the key set of the returned dict.                         *)
(***************************************************************************)
EXTENDS Integers, Sequences, FiniteSets, TLC

VARIABLES
    entry,   \* the handler the caller invoked
    store,   \* the archive store: day -> list of serialized entries
    now,     \* datetime.now().timestamp() at the time of the call
    data,    \* the request mapping given to the invoked handler
    pc,      \* position of the invoked handler
    calls,   \* the stage handlers invoked so far, in order
    qIn, fIn, rIn, pIn,         \* the mapping handed to each stage
    qOut, fOut, rOut, pOut,     \* the pair each stage returned
    ret,     \* the pair returned to the caller
    selected, \* the partition keys query_archives built
    reads,   \* the accesses made to the archive store, in order
    draws,   \* the noise draws taken from np.random.laplace, in order
    zone,    \* the local time zone of the process
    seed,    \* the seed np.random was last given
    rng,     \* the number of draws np.random has made since it was seeded
    jobs,    \* the concurrent invocations of the privacy stage
    authTokens,  \* Redis: auth_token:<token> -> user name and expiry time
    userTokens,  \* Redis: user_tokens:<user> -> token list and expiry time
    clock,   \* the time of the token store
    lastCall,    \* the last call of a token function and what it returned
    http     \* the last HTTP request and its answer

noiseVars == <<seed, rng, jobs>>
authVars == <<authTokens, userTokens, clock, lastCall, http>>
vars == <<entry, store, now, data, pc, calls, qIn, fIn, rIn, pIn,
          qOut, fOut, rOut, pOut, ret, selected, reads, draws, zone,
          noiseVars, authVars>>

----------------------------------------------------------------------------
(* Bounds of the model *)

\* timestamps are drawn from 0, HalfDay, ..., MaxTick * HalfDay
MaxTick == 4
\* limit and offset are drawn from -1 .. MaxPage
MaxPage == 2
\* a noise draw is one of -MaxNoise, -1, 0, MaxNoise halves
MaxNoise == 2
\* np.random is seeded with one of 0 .. MaxSeed
MaxSeed == 2
\* a token is stored with expires_in 0, 1 or MaxTtl
MaxTtl == 3
\* the clock of the token store runs from 0 to MaxClock
MaxClock == 3

----------------------------------------------------------------------------
(* Python values *)

IntV(n) == [t |-> "int", n |-> n, s |-> <<>>]
FloatV(h) == [t |-> "float", n |-> h, s |-> <<>>]
BoolV(b) == [t |-> "bool", n |-> IF b THEN 1 ELSE 0, s |-> <<>>]
StrV(s) == [t |-> "str", n |-> 0, s |-> s]
NullV == [t |-> "null", n |-> 0, s |-> <<>>]
MapV(s) == [t |-> "map", n |-> 0, s |-> s]

\* isinstance(value, (int, float)): bool is a subclass of int
IsNum(v) == v.t \in {"int", "float", "bool"}
\* isinstance(value, int)
IsInt(v) == v.t \in {"int", "bool"}
\* twice the numeric value of v
Twice(v) == IF v.t = "float" THEN v.n ELSE 2 * v.n

\* a == b on JSON values: numbers compare by value across int, float, bool
PyEq(a, b) ==
    IF IsNum(a) /\ IsNum(b) THEN Twice(a) = Twice(b) ELSE a = b

\* int(x): truncates a float toward zero, raises on None and on our texts
IntOk(v) == IsNum(v)
PyInt(v) ==
    IF v.t = "float"
    THEN (IF v.n >= 0 THEN v.n \div 2 ELSE -((-v.n) \div 2))
    ELSE v.n

Min(a, b) == IF a <= b THEN a ELSE b
Max(a, b) == IF a >= b THEN a ELSE b

\* seq[a:b] with Python's clamping and negative indices
SliceIndex(i, n) == IF i < 0 THEN Max(i + n, 0) ELSE Min(i, n)
PySlice(seq, a, b) ==
    LET lo == SliceIndex(a, Len(seq))
        hi == SliceIndex(b, Len(seq))
    IN  IF lo >= hi THEN <<>> ELSE SubSeq(seq, lo + 1, hi)

\* mappings
Dict(f) == [isMap |-> TRUE, f |-> f]
\* a value that is not a mapping where one is expected (a number, None)
NonMap == [isMap |-> FALSE, f |-> <<>>]
EmptyDict == Dict(<<>>)
Keys(m) == DOMAIN m.f
\* dict.get(k): None when the key is missing
Get(m, k) == IF k \in DOMAIN m.f THEN m.f[k] ELSE NullV
\* dict.get(k, default)
GetD(m, k, default) == IF k \in DOMAIN m.f THEN m.f[k] ELSE default

\* an optional request parameter: data.get(key, default)
Absent == [p |-> FALSE, v |-> NullV]
Given(v) == [p |-> TRUE, v |-> v]
\* an absent parameter whose values are bare names
AbsentName == [p |-> FALSE, v |-> ""]
GetOr(opt, default) == IF opt.p THEN opt.v ELSE default

----------------------------------------------------------------------------
(* Result pairs *)

NoMeta == [epsilon |-> 0, sensitivity |-> 0, mechanism |-> ""]

ErrorBody(msg) ==
    [keys |-> {"error"}, count |-> 0, recs |-> <<>>, shape |-> "none",
     error |-> msg, meta |-> NoMeta]

\* a body {"count": n, listKey: recs} (listKey = "" for {"count": n})
ListBody(listKey, recs, n) ==
    [keys |-> IF listKey = "" THEN {"count"} ELSE {"count", listKey},
     count |-> n, recs |-> recs, shape |-> "seq", error |-> "",
     meta |-> NoMeta]

Pair(body, status) == [status |-> status, body |-> body]
NoPair == Pair(ErrorBody(""), 0)

\* mutant: the filter stage reports its exceptions as a bad request
FilterErrorBadRequest(msg) == Pair(ErrorBody(msg), 400)

\* except Exception as e: return {"error": str(e)}, 500 -- of each stage
QueryError(msg) == Pair(ErrorBody(msg), 500)
FilterError(msg) == Pair(ErrorBody(msg), 500)
RedactError(msg) == Pair(ErrorBody(msg), 500)
PrivacyError(msg) == Pair(ErrorBody(msg), 500)

----------------------------------------------------------------------------
(* Archive store and query_archives *)

SecondsPerDay == 86400
DefaultLimit == 100
HalfDay == SecondsPerDay \div 2

\* datetime.fromtimestamp(t).strftime('%Y-%m-%d') in a zone at a fixed
\* offset from UTC, taken as 0: the calendar day of t, numbered from the epoch
LocalDay(t) == t \div SecondsPerDay

\* the local time zones of the model: "fixed" keeps one offset from UTC;
\* "dst" sets its clocks back one hour at 02:00 of day 1, so that day lasts
\* 25 hours
Zones == {"fixed", "dst"}
ClocksBack == SecondsPerDay + (SecondsPerDay \div 12)
\* datetime.fromtimestamp(t).strftime('%Y-%m-%d') in zone z
LocalDayIn(z, t) ==
    IF z = "dst" /\ t >= ClocksBack
    THEN LocalDay(t - (SecondsPerDay \div 24))
    ELSE LocalDay(t)

\* mutant: the loop tests its condition after the first key
RECURSIVE DateKeysAtLeastOne(_, _, _)
DateKeysAtLeastOne(z, current_time, end_time) ==
    <<LocalDayIn(z, current_time)>>
        \o (IF current_time + SecondsPerDay <= end_time
            THEN DateKeysAtLeastOne(z, current_time + SecondsPerDay, end_time)
            ELSE <<>>)

\* lines 48-54: one key per step of 86400 seconds from start while <= end
RECURSIVE DateKeys(_, _, _)
DateKeys(z, current_time, end_time) ==
    IF current_time <= end_time
    THEN <<LocalDayIn(z, current_time)>>
             \o DateKeys(z, current_time + SecondsPerDay, end_time)
    ELSE <<>>

\* a stored list entry: serialized JSON, or text json.loads rejects
Json(item) == [kind |-> "json", item |-> item]
Garbage == [kind |-> "garbage", item |-> NonMap]

\* redis_client.exists(key): Redis holds no empty list
Exists(st, key) == key \in DOMAIN st /\ Len(st[key]) > 0
\* redis_client.lrange(key, 0, -1)
LRange(st, key) == IF key \in DOMAIN st THEN st[key] ELSE <<>>

\* line 65: all(item.get(k) == v for k, v in filters.items())
MatchesFilters(item, filters) ==
    \A k \in Keys(filters) : PyEq(Get(item, k), filters.f[k])

\* mutant: a retained item is put in front of the results
RECURSIVE ScanItemsPrepend(_, _, _, _)
ScanItemsPrepend(archive_data, i, filters, acc) ==
    IF i > Len(archive_data) \/ acc.exc # ""
    THEN acc
    ELSE LET e == archive_data[i] IN
         IF e.kind # "json"
         THEN ScanItemsPrepend(archive_data, i + 1, filters, acc)
         ELSE IF ~filters.isMap
         THEN [acc EXCEPT !.exc = "AttributeError"]
         ELSE IF ~e.item.isMap /\ Keys(filters) # {}
         THEN [acc EXCEPT !.exc = "AttributeError"]
         ELSE IF MatchesFilters(e.item, filters)
         THEN ScanItemsPrepend(archive_data, i + 1, filters,
                        [acc EXCEPT !.results = <<e.item>> \o @])
         ELSE ScanItemsPrepend(archive_data, i + 1, filters, acc)

\* mutant: an undecodable entry ends the scan of its partition
RECURSIVE ScanItemsBreak(_, _, _, _)
ScanItemsBreak(archive_data, i, filters, acc) ==
    IF i > Len(archive_data) \/ acc.exc # ""
    THEN acc
    ELSE LET e == archive_data[i] IN
         IF e.kind # "json"
         THEN acc
         ELSE IF ~filters.isMap
         THEN [acc EXCEPT !.exc = "AttributeError"]
         ELSE IF ~e.item.isMap /\ Keys(filters) # {}
         THEN [acc EXCEPT !.exc = "AttributeError"]
         ELSE IF MatchesFilters(e.item, filters)
         THEN ScanItemsBreak(archive_data, i + 1, filters,
                        [acc EXCEPT !.results = Append(@, e.item)])
         ELSE ScanItemsBreak(archive_data, i + 1, filters, acc)

\* lines 61-68 for one partition; acc = [exc, results, log]
RECURSIVE ScanItems(_, _, _, _)
ScanItems(archive_data, i, filters, acc) ==
    IF i > Len(archive_data) \/ acc.exc # ""
    THEN acc
    ELSE LET e == archive_data[i] IN
         IF e.kind # "json"
         THEN ScanItems(archive_data, i + 1, filters, acc)
         ELSE IF ~filters.isMap
         THEN [acc EXCEPT !.exc = "AttributeError"]
         ELSE IF ~e.item.isMap /\ Keys(filters) # {}
         THEN [acc EXCEPT !.exc = "AttributeError"]
         ELSE IF MatchesFilters(e.item, filters)
         THEN ScanItems(archive_data, i + 1, filters,
                        [acc EXCEPT !.results = Append(@, e.item)])
         ELSE ScanItems(archive_data, i + 1, filters, acc)

\* lines 57-68 over the keys from index j
RECURSIVE ScanKeys(_, _, _, _, _)
ScanKeys(st, keys, j, filters, acc) ==
    IF j > Len(keys) \/ acc.exc # ""
    THEN acc
    ELSE LET key == keys[j]
             seen == [acc EXCEPT !.log = Append(@, <<"exists", key>>)]
         IN  IF Exists(st, key)
             THEN ScanKeys(st, keys, j + 1, filters,
                      ScanItems(LRange(st, key), 1, filters,
                          [seen EXCEPT !.log = Append(@, <<"lrange", key>>)]))
             ELSE ScanKeys(st, keys, j + 1, filters, seen)

\* lines 79-80: the summary entry of one item
SummaryOf(item) ==
    Dict([k \in {"id", "timestamp"} |-> Get(item, k)])

\* mutant: the count is taken from the page
FormatResponsePageCount(query_type, results, paginated_results) ==
    IF query_type = "count"
    THEN Pair(ListBody("", <<>>, Len(paginated_results)), 200)
    ELSE IF query_type = "summary"
    THEN IF \E i \in 1..Len(paginated_results) : ~paginated_results[i].isMap
         THEN QueryError("AttributeError")
         ELSE Pair(ListBody("summary",
                       [i \in 1..Len(paginated_results) |->
                           SummaryOf(paginated_results[i])],
                       Len(paginated_results)), 200)
    ELSE Pair(ListBody("data", paginated_results, Len(paginated_results)),
              200)

\* lines 73-88
FormatResponse(query_type, results, paginated_results) ==
    IF query_type = "count"
    THEN Pair(ListBody("", <<>>, Len(results)), 200)
    ELSE IF query_type = "summary"
    THEN IF \E i \in 1..Len(paginated_results) : ~paginated_results[i].isMap
         THEN QueryError("AttributeError")
         ELSE Pair(ListBody("summary",
                       [i \in 1..Len(paginated_results) |->
                           SummaryOf(paginated_results[i])],
                       Len(results)), 200)
    ELSE Pair(ListBody("data", paginated_results, Len(results)), 200)

\* mutant: the page ends one entry late
PaginateInclusive(results, offset, limit) ==
    PySlice(results, offset, offset + limit + 1)

\* line 71
Paginate(results, offset, limit) == PySlice(results, offset, offset + limit)

\* query_archives(data) against store st at time nowT in time zone z:
\* [ret |-> the returned pair, log |-> the store accesses, keys |-> the keys]
query_archives(d, st, nowT, z) ==
    LET query_type == GetOr(d.query_type, "full")
        time_range == GetOr(d.time_range, EmptyDict)
        filters == GetOr(d.filters, EmptyDict)
        limitV == GetOr(d.limit, IntV(DefaultLimit))
        offsetV == GetOr(d.offset, IntV(0))
        failed(msg) == [ret |-> QueryError(msg), log |-> <<>>, keys |-> <<>>]
    IN  IF ~IntOk(limitV) \/ ~IntOk(offsetV)
        THEN failed("TypeError")
        ELSE IF ~time_range.isMap
        THEN failed("AttributeError")
        ELSE LET start_time == GetD(time_range, "start", IntV(0))
                 end_time == GetD(time_range, "end", IntV(nowT))
             IN  IF start_time.t # "int" \/ end_time.t # "int"
                 THEN failed("TypeError")
                 ELSE LET keys == DateKeys(z, start_time.n, end_time.n)
                          scan == ScanKeys(st, keys, 1, filters,
                                     [exc |-> "", results |-> <<>>,
                                      log |-> <<>>])
                          page == Paginate(scan.results, PyInt(offsetV),
                                           PyInt(limitV))
                      IN  [ret |-> IF scan.exc # ""
                                   THEN QueryError(scan.exc)
                                   ELSE FormatResponse(query_type,
                                            scan.results, page),
                           log |-> scan.log, keys |-> keys]

----------------------------------------------------------------------------
(* Text: characters, str(), ordering *)

\* the characters of the model's texts, in code-point order
Ascii ==
    <<" ", "#", "'", "*", "-", ".", "0", "1", "2", "3", "4", "5", "6", "7",
      "8", "9", ":", "A", "B", "C", "D", "E", "F", "J", "M", "N", "R", "S",
      "T", "[", "]", "a", "b", "e", "l", "m", "n", "o", "r", "s", "t", "u",
      "x", "{", "}">>
Ord(c) == CHOOSE i \in 1..Len(Ascii) : Ascii[i] = c
IsUpper(c) == Ord(c) >= Ord("A") /\ Ord(c) <= Ord("T")
IsLower(c) == Ord(c) >= Ord("a") /\ Ord(c) <= Ord("x")
IsDigit(c) == Ord(c) >= Ord("0") /\ Ord(c) <= Ord("9")
\* \w of the re module
IsWord(c) == IsUpper(c) \/ IsLower(c) \/ IsDigit(c)

DigitChars == <<"0", "1", "2", "3", "4", "5", "6", "7", "8", "9">>
RECURSIVE NatStr(_)
NatStr(n) ==
    IF n < 10 THEN <<DigitChars[n + 1]>>
    ELSE NatStr(n \div 10) \o <<DigitChars[(n % 10) + 1]>>
IntStr(n) == IF n < 0 THEN <<"-">> \o NatStr(-n) ELSE NatStr(n)

\* str(value)
PyStr(v) ==
    CASE v.t = "str" -> v.s
      [] v.t = "int" -> IntStr(v.n)
      [] v.t = "bool" -> IF v.n = 1 THEN <<"T", "r", "u", "e">>
                         ELSE <<"F", "a", "l", "s", "e">>
      [] v.t = "null" -> <<"N", "o", "n", "e">>
      [] v.t = "float" ->
            (IF v.n < 0 THEN <<"-">> ELSE <<>>)
                \o NatStr((IF v.n < 0 THEN -v.n ELSE v.n) \div 2)
                \o <<".">>
                \o (IF v.n % 2 = 0 THEN <<"0">> ELSE <<"5">>)
      [] OTHER -> <<"{", "'", "n", "'", ":", " ", "'">> \o v.s \o <<"'", "}">>

IsPrefix(p, s) == Len(p) <= Len(s) /\ SubSeq(s, 1, Len(p)) = p

\* a < b on texts: lexicographic by code point
TextLess(a, b) ==
    \E i \in 1..(Len(b)) :
        /\ i <= Len(a) + 1
        /\ SubSeq(a, 1, i - 1) = SubSeq(b, 1, i - 1)
        /\ (i = Len(a) + 1 \/ Ord(a[i]) < Ord(b[i]))

\* a < b is defined between numbers and between texts, a TypeError otherwise
Comparable(a, b) ==
    (IsNum(a) /\ IsNum(b)) \/ (a.t = "str" /\ b.t = "str")
\* mutant: a value equal to the bound counts as beyond it
PyLessOrEqual(a, b) ==
    IF IsNum(a) THEN Twice(a) <= Twice(b)
    ELSE a.s = b.s \/ TextLess(a.s, b.s)

PyLess(a, b) ==
    IF IsNum(a) THEN Twice(a) < Twice(b) ELSE TextLess(a.s, b.s)

----------------------------------------------------------------------------
(* apply_filters *)

\* the 'results' of a stage: a list of items, None, or (given to
\* add_differential_privacy only) one aggregate mapping
ListOf(items) == [kind |-> "list", items |-> items]
MappingOf(m) == [kind |-> "map", items |-> <<m>>]
NoneResults == [kind |-> "none", items |-> <<>>]

\* a list of field names, or None
Fields(elems) == [kind |-> "list", elems |-> elems]
NoneFields == [kind |-> "none", elems |-> <<>>]
InFields(k, fl) == \E i \in 1..Len(fl.elems) : fl.elems[i] = k

\* a regular expression: a literal text, a literal followed by $, one that
\* re rejects, or None
Pattern(kind, lit) == [kind |-> kind, lit |-> lit]
\* re.match(pattern, text) is not None
ReMatch(pat, text) ==
    IF pat.kind = "full" THEN text = pat.lit ELSE IsPrefix(pat.lit, text)

\* the rules of one field: {'range': {'min', 'max'}, 'regex', 'in'}, each
\* optional; kind "list" is a list of other things, kind "none" is None
Rules(kind, range, regex, in) ==
    [kind |-> kind, range |-> range, regex |-> regex, in |-> in]
NoPattern == [p |-> FALSE, v |-> Pattern("prefix", <<>>)]
NoIn == [p |-> FALSE, v |-> [kind |-> "list", elems |-> <<>>]]
NoRange == [p |-> FALSE, v |-> [min |-> Absent, max |-> Absent]]
Range(min, max) == [p |-> TRUE, v |-> [min |-> min, max |-> max]]

\* lines 123-147 for one (field, rules): "pass", "fail" or the exception
CheckRules(item, field, rules) ==
    IF field \notin Keys(item) THEN "fail"
    ELSE LET field_value == item.f[field]
             range_rule == rules.range.v
             minBad == range_rule.min.p
                           /\ ~Comparable(field_value, range_rule.min.v)
             minFail == range_rule.min.p
                           /\ PyLess(field_value, range_rule.min.v)
             maxBad == range_rule.max.p
                           /\ ~Comparable(field_value, range_rule.max.v)
             maxFail == range_rule.max.p
                           /\ PyLess(range_rule.max.v, field_value)
         IN  IF rules.kind = "none" THEN "TypeError"
             ELSE IF rules.kind = "list" THEN "pass"
             ELSE IF rules.range.p /\ minBad THEN "TypeError"
             ELSE IF rules.range.p /\ minFail THEN "fail"
             ELSE IF rules.range.p /\ maxBad THEN "TypeError"
             ELSE IF rules.range.p /\ maxFail THEN "fail"
             ELSE IF rules.regex.p /\ rules.regex.v.kind = "none"
             THEN "TypeError"
             ELSE IF rules.regex.p /\ rules.regex.v.kind = "invalid"
             THEN "re.error"
             ELSE IF rules.regex.p
                       /\ ~ReMatch(rules.regex.v, PyStr(field_value))
             THEN "fail"
             ELSE IF rules.in.p /\ rules.in.v.kind = "none" THEN "TypeError"
             ELSE IF rules.in.p
                       /\ ~\E i \in 1..Len(rules.in.v.elems) :
                              PyEq(field_value, rules.in.v.elems[i])
             THEN "fail"
             ELSE "pass"

\* lines 120-147: the rules in the order of field_rules.items(), stopping at
\* the first that fails or raises
RECURSIVE ItemPasses(_, _, _)
ItemPasses(item, pairs, i) ==
    IF i > Len(pairs) THEN "pass"
    ELSE LET r == CheckRules(item, pairs[i].field, pairs[i].rules)
         IN  IF r = "pass" THEN ItemPasses(item, pairs, i + 1) ELSE r

\* mutant: the excluded fields are dropped from an included selection too
SelectFieldsExcludeAlways(item, include_fields, exclude_fields) ==
    IF include_fields.kind = "list" /\ include_fields.elems # <<>>
    THEN Dict([k \in {x \in Keys(item) : InFields(x, include_fields)
                                          /\ ~InFields(x, exclude_fields)} |->
                  item.f[k]])
    ELSE Dict([k \in {x \in Keys(item) : ~InFields(x, exclude_fields)} |->
                  item.f[k]])

\* lines 153-162
SelectFields(item, include_fields, exclude_fields) ==
    IF include_fields.kind = "list" /\ include_fields.elems # <<>>
    THEN Dict([k \in {x \in Keys(item) : InFields(x, include_fields)} |->
                  item.f[k]])
    ELSE Dict([k \in {x \in Keys(item) : ~InFields(x, exclude_fields)} |->
                  item.f[k]])

\* lines 118-164 for one item: [exc, keep, out]
FilterItem(item, include_fields, exclude_fields, field_rules) ==
    LET raise(e) == [exc |-> e, keep |-> FALSE, out |-> EmptyDict]
        verdict == ItemPasses(item, field_rules.pairs, 1)
        including == include_fields.kind = "list"
                        /\ include_fields.elems # <<>>
    IN  IF ~field_rules.isMap THEN raise("AttributeError")
        ELSE IF ~item.isMap /\ field_rules.pairs # <<>> THEN raise("TypeError")
        ELSE IF ~item.isMap /\ including THEN raise("TypeError")
        ELSE IF ~item.isMap THEN raise("AttributeError")
        ELSE IF verdict = "fail" THEN [raise("") EXCEPT !.exc = ""]
        ELSE IF verdict # "pass" THEN raise(verdict)
        ELSE IF ~including /\ exclude_fields.kind = "none" /\ Keys(item) # {}
        THEN raise("TypeError")
        ELSE [exc |-> "", keep |-> TRUE,
              out |-> SelectFields(item, include_fields, exclude_fields)]

RECURSIVE FilterItems(_, _, _, _, _, _)
FilterItems(results, i, include_fields, exclude_fields, field_rules, acc) ==
    IF i > Len(results) \/ acc.exc # "" THEN acc
    ELSE LET r == FilterItem(results[i], include_fields, exclude_fields,
                             field_rules)
         IN  FilterItems(results, i + 1, include_fields, exclude_fields,
                 field_rules,
                 IF r.exc # "" THEN [acc EXCEPT !.exc = r.exc]
                 ELSE IF r.keep
                 THEN [acc EXCEPT !.out = Append(@, r.out)]
                 ELSE acc)

NoFilterSpec ==
    [isMap |-> TRUE, include_fields |-> Absent, exclude_fields |-> Absent,
     field_rules |-> Absent]

\* apply_filters(data): the returned pair
apply_filters(d) ==
    LET results == GetOr(d.results, ListOf(<<>>))
        filters == GetOr(d.filters, NoFilterSpec)
        include_fields == GetOr(filters.include_fields, Fields(<<>>))
        exclude_fields == GetOr(filters.exclude_fields, Fields(<<>>))
        field_rules == GetOr(filters.field_rules,
                             [isMap |-> TRUE, pairs |-> <<>>])
        done == FilterItems(results.items, 1, include_fields, exclude_fields,
                            field_rules, [exc |-> "", out |-> <<>>])
    IN  IF ~filters.isMap THEN FilterError("AttributeError")
        ELSE IF results.kind = "none" THEN FilterError("TypeError")
        ELSE IF done.exc # "" THEN FilterError(done.exc)
        ELSE Pair(ListBody("filtered_data", done.out, Len(done.out)), 200)

----------------------------------------------------------------------------
(* redact_names *)

Redacted == <<"[", "R", "E", "D", "A", "C", "T", "E", "D", "]">>

\* the last index of the run of lowercase letters that starts at i (i - 1
\* when text[i] is no lowercase letter)
RECURSIVE LowerRunEnd(_, _)
LowerRunEnd(text, i) ==
    IF i <= Len(text) /\ IsLower(text[i]) THEN LowerRunEnd(text, i + 1)
    ELSE i - 1

\* mutant: the pattern without its leading \b
NameMatchEndUnanchored(text, i) ==
    LET j == LowerRunEnd(text, i + 1)
        k == LowerRunEnd(text, j + 3)
    IN  IF /\ i <= Len(text) /\ IsUpper(text[i])
           /\ j >= i + 1
           /\ j + 2 <= Len(text) /\ text[j + 1] = " " /\ IsUpper(text[j + 2])
           /\ k >= j + 3
           /\ (k = Len(text) \/ ~IsWord(text[k + 1]))
        THEN k ELSE 0

\* where a match of \b[A-Z][a-z]+ [A-Z][a-z]+\b that starts at i ends; 0 when
\* there is none.  [a-z]+ is greedy and a shorter run is followed by a
\* lowercase letter, which is neither the space nor a word boundary.
NameMatchEnd(text, i) ==
    LET j == LowerRunEnd(text, i + 1)
        k == LowerRunEnd(text, j + 3)
    IN  IF /\ i <= Len(text) /\ IsUpper(text[i])
           /\ (i = 1 \/ ~IsWord(text[i - 1]))
           /\ j >= i + 1
           /\ j + 2 <= Len(text) /\ text[j + 1] = " " /\ IsUpper(text[j + 2])
           /\ k >= j + 3
           /\ (k = Len(text) \/ ~IsWord(text[k + 1]))
        THEN k ELSE 0

\* name_pattern.sub('[REDACTED]', text) from index i
RECURSIVE NameSub(_, _)
NameSub(text, i) ==
    IF i > Len(text) THEN <<>>
    ELSE LET k == NameMatchEnd(text, i)
         IN  IF k > 0 THEN Redacted \o NameSub(text, k + 1)
             ELSE <<text[i]>> \o NameSub(text, i + 1)

\* bool(value)
Truthy(v) ==
    CASE v.t = "str" -> v.s # <<>>
      [] v.t = "null" -> FALSE
      [] v.t = "map" -> TRUE
      [] OTHER -> v.n # 0

RECURSIVE Repeat(_, _)
Repeat(text, n) == IF n <= 0 THEN <<>> ELSE text \o Repeat(text, n - 1)

\* redaction_char * len(value)
MaskOk(redaction_char) == redaction_char.t \in {"str", "int", "bool", "float"}
Mask(redaction_char, n) ==
    CASE redaction_char.t = "str" -> StrV(Repeat(redaction_char.s, n))
      [] redaction_char.t = "float" -> FloatV(redaction_char.n * n)
      [] OTHER -> IntV(redaction_char.n * n)

\* mutant: a listed field is masked whatever its value is, and the text of a
\* nested mapping is scanned for names
RedactValueAnyType(key, value, fields_to_redact, redaction_char, preserve_length) ==
    IF InFields(key, fields_to_redact)
    THEN IF Truthy(preserve_length) THEN Mask(redaction_char, Len(value.s))
         ELSE StrV(Redacted)
    ELSE IF value.t = "str" THEN StrV(NameSub(value.s, 1))
    ELSE IF value.t = "map" THEN MapV(NameSub(value.s, 1))
    ELSE value

\* lines 200-215 for one (key, value)
RedactValue(key, value, fields_to_redact, redaction_char, preserve_length) ==
    IF InFields(key, fields_to_redact) /\ value.t = "str"
    THEN IF Truthy(preserve_length) THEN Mask(redaction_char, Len(value.s))
         ELSE StrV(Redacted)
    ELSE IF value.t = "str" THEN StrV(NameSub(value.s, 1))
    ELSE value

\* the exception lines 199-215 raise on one item, "" when none
RedactRaises(item, fields_to_redact, redaction_char, preserve_length) ==
    IF ~item.isMap THEN "AttributeError"
    ELSE IF Keys(item) # {} /\ fields_to_redact.kind = "none" THEN "TypeError"
    ELSE IF /\ Truthy(preserve_length) /\ ~MaskOk(redaction_char)
            /\ \E k \in Keys(item) :
                   InFields(k, fields_to_redact) /\ item.f[k].t = "str"
    THEN "TypeError"
    ELSE ""

\* mutant: only the text values are copied to the redacted item
RedactItemTextOnly(item, fields_to_redact, redaction_char, preserve_length) ==
    Dict([k \in {x \in Keys(item) : item.f[x].t = "str"} |->
             RedactValue(k, item.f[k], fields_to_redact, redaction_char,
                         preserve_length)])

\* lines 197-215
RedactItem(item, fields_to_redact, redaction_char, preserve_length) ==
    Dict([k \in Keys(item) |->
             RedactValue(k, item.f[k], fields_to_redact, redaction_char,
                         preserve_length)])

DefaultFieldsToRedact == Fields(<<"name", "full_name", "username">>)

\* redact_names(data): the returned pair
redact_names(d) ==
    LET results == GetOr(d.results, ListOf(<<>>))
        fields_to_redact == GetOr(d.fields_to_redact, DefaultFieldsToRedact)
        redaction_char == GetOr(d.redaction_character, StrV(<<"*">>))
        preserve_length == GetOr(d.preserve_length, BoolV(TRUE))
        n == Len(results.items)
        bad == {i \in 1..n :
                   RedactRaises(results.items[i], fields_to_redact,
                                redaction_char, preserve_length) # ""}
        first == CHOOSE i \in bad : \A j \in bad : i <= j
        redacted_results ==
            [i \in 1..n |->
                RedactItem(results.items[i], fields_to_redact,
                           redaction_char, preserve_length)]
    IN  IF results.kind = "none" THEN RedactError("TypeError")
        ELSE IF bad # {}
        THEN RedactError(RedactRaises(results.items[first],
                 fields_to_redact, redaction_char, preserve_length))
        ELSE Pair(ListBody("redacted_data", redacted_results, n), 200)

----------------------------------------------------------------------------
(* add_differential_privacy *)

\* float(x): a number, or a text of decimal digits; other texts of the
\* model's alphabet, None and mappings raise
FloatOk(v) ==
    \/ IsNum(v)
    \/ v.t = "str" /\ v.s # <<>> /\ \A i \in 1..Len(v.s) : IsDigit(v.s[i])
RECURSIVE DigitsValue(_)
DigitsValue(s) ==
    IF s = <<>> THEN 0
    ELSE 10 * DigitsValue(SubSeq(s, 1, Len(s) - 1)) + (Ord(s[Len(s)]) - Ord("0"))
\* twice float(x)
PyFloat2(v) == IF v.t = "str" THEN 2 * DigitsValue(v.s) ELSE Twice(v)

\* round(h / 2) for an integer h of halves: ties go to the even integer
PyRound2(h) ==
    LET f == h \div 2
    IN  IF h % 2 = 0 \/ f % 2 = 0 THEN f ELSE f + 1

\* mutant: the noisy value of an integer is not rounded
NoisyValueUnrounded(value, noise) ==
    IF IsInt(value) THEN FloatV(2 * value.n + noise)
    ELSE FloatV(value.n + noise)

\* lines 257-269 for one (key, value), noise in halves
NoisyValue(value, noise) ==
    IF IsInt(value) THEN IntV(PyRound2(2 * value.n + noise))
    ELSE FloatV(value.n + noise)

\* the (item index, key) pairs that get a noise draw
IsNoised(item, key, numeric_fields) ==
    InFields(key, numeric_fields) /\ IsNum(item.f[key])
NoiseSlots(d) ==
    LET results == GetOr(d.results, ListOf(<<>>))
        numeric_fields == GetOr(d.numeric_fields, Fields(<<>>))
    IN  {sl \in (1..Len(results.items)) \X
                UNION {Keys(results.items[i]) : i \in 1..Len(results.items)} :
            /\ results.items[sl[1]].isMap
            /\ sl[2] \in Keys(results.items[sl[1]])
            /\ IsNoised(results.items[sl[1]], sl[2], numeric_fields)}

\* the exception lines 253-269 (279-292) raise on one item, "" when none
NoiseRaises(item, numeric_fields, sensitivity2) ==
    IF ~item.isMap THEN "AttributeError"
    ELSE IF Keys(item) # {} /\ numeric_fields.kind = "none" THEN "TypeError"
    ELSE IF sensitivity2 < 0
            /\ \E k \in Keys(item) : IsNoised(item, k, numeric_fields)
    THEN "ValueError"
    ELSE ""

NoisyItem(item, i, numeric_fields, noise) ==
    Dict([k \in Keys(item) |->
             IF IsNoised(item, k, numeric_fields)
             THEN NoisyValue(item.f[k], noise[<<i, k>>])
             ELSE item.f[k]])

\* mutant: the count is reported for an aggregate mapping too
PrivacyBodyAlwaysCount(shape, recs, meta) ==
    [keys |-> {"privacy_protected_data", "count", "privacy_metadata"},
     count |-> Len(recs),
     recs |-> recs, shape |-> shape, error |-> "", meta |-> meta]

\* lines 273, 294 and 297-301
PrivacyBody(shape, recs, meta) ==
    [keys |-> IF shape = "seq"
              THEN {"privacy_protected_data", "count", "privacy_metadata"}
              ELSE {"privacy_protected_data", "privacy_metadata"},
     count |-> IF shape = "seq" THEN Len(recs) ELSE 0,
     recs |-> recs, shape |-> shape, error |-> "", meta |-> meta]

\* mutant: epsilon = 0 is let through
EpsilonRejectedStrict(epsilon) == epsilon < 0

\* line 245, on twice the value of epsilon
EpsilonRejected(epsilon) == epsilon <= 0

\* add_differential_privacy(data) with the draws noise (a function on
\* NoiseSlots(data), in halves): [ret |-> the pair, drawn |-> the draws taken]
add_differential_privacy(d, noise) ==
    LET results == GetOr(d.results, ListOf(<<>>))
        numeric_fields == GetOr(d.numeric_fields, Fields(<<>>))
        epsilonV == GetOr(d.epsilon, FloatV(2))
        sensitivityV == GetOr(d.sensitivity, FloatV(2))
        epsilon == PyFloat2(epsilonV)
        sensitivity == PyFloat2(sensitivityV)
        n == Len(results.items)
        bad == {i \in 1..n :
                   NoiseRaises(results.items[i], numeric_fields,
                               sensitivity) # ""}
        first == CHOOSE i \in bad : \A j \in bad : i <= j
        noisy_results ==
            [i \in 1..n |->
                NoisyItem(results.items[i], i, numeric_fields, noise)]
        meta == [epsilon |-> epsilon, sensitivity |-> sensitivity,
                 mechanism |-> "Laplace"]
        fail(pair) == [ret |-> pair, drawn |-> <<>>]
    IN  IF ~FloatOk(epsilonV) \/ ~FloatOk(sensitivityV)
        THEN fail(PrivacyError("ValueError"))
        ELSE IF EpsilonRejected(epsilon)
        THEN fail(Pair(ErrorBody("Epsilon must be positive"), 400))
        ELSE IF results.kind = "none"
        THEN fail(PrivacyError("AttributeError"))
        ELSE IF bad # {}
        THEN [ret |-> PrivacyError(NoiseRaises(results.items[first],
                               numeric_fields, sensitivity)),
              drawn |-> [sl \in {x \in DOMAIN noise : x[1] < first} |->
                            noise[sl]]]
        ELSE [ret |-> Pair(PrivacyBody(IF results.kind = "list" THEN "seq"
                                       ELSE "map", noisy_results, meta), 200),
              drawn |-> noise]

----------------------------------------------------------------------------
(* combined_query_with_privacy: the mapping it builds for each stage *)

\* lines 320-326
query_data(d) ==
    [query_type |-> Given(GetOr(d.query_type, "full")),
     time_range |-> Given(GetOr(d.time_range, EmptyDict)),
     filters |-> Given(GetOr(d.query_filters, EmptyDict)),
     limit |-> Given(GetOr(d.limit, IntV(DefaultLimit))),
     offset |-> Given(GetOr(d.offset, IntV(0)))]

\* mutant: the records of the result under whatever key they are
GetListAnyKey(result, listKey) == ListOf(result.recs)

\* result.get(listKey, [])
GetList(result, listKey) ==
    IF listKey \in result.keys THEN ListOf(result.recs) ELSE ListOf(<<>>)

\* mutant: the filter stage is handed the query result's 'results'
filter_data_wrong_key(d, query_result) ==
    [results |-> Given(GetList(query_result, "results")),
     filters |-> Given(GetOr(d.filters, NoFilterSpec))]

\* lines 334-337
filter_data(d, query_result) ==
    [results |-> Given(GetList(query_result, "data")),
     filters |-> Given(GetOr(d.filters, NoFilterSpec))]

\* lines 345-350
redact_data(d, filtered_result) ==
    [results |-> Given(GetList(filtered_result, "filtered_data")),
     fields_to_redact |-> Given(GetOr(d.fields_to_redact, Fields(<<>>))),
     redaction_character |-> Given(GetOr(d.redaction_character,
                                         StrV(<<"*">>))),
     preserve_length |-> Given(GetOr(d.preserve_length, BoolV(TRUE)))]

\* lines 358-363
privacy_data(d, redacted_result) ==
    [results |-> Given(GetList(redacted_result, "redacted_data")),
     numeric_fields |-> Given(GetOr(d.numeric_fields, Fields(<<>>))),
     epsilon |-> Given(GetOr(d.epsilon, FloatV(2))),
     sensitivity |-> Given(GetOr(d.sensitivity, FloatV(2)))]

\* the values np.random.laplace(0, scale) may return, in halves: any real for
\* scale > 0 (here -MaxNoise, -1, 0 or MaxNoise halves), 0 alone for scale = 0
NoiseValues(d) ==
    LET sensitivityV == GetOr(d.sensitivity, FloatV(2))
    IN  IF FloatOk(sensitivityV) /\ PyFloat2(sensitivityV) = 0 THEN {0}
        ELSE {-MaxNoise, -1, 0, MaxNoise}
NoiseChoices(d) == [NoiseSlots(d) -> NoiseValues(d)]

----------------------------------------------------------------------------
(* Sample data: text, records, stores, requests *)

Text(s) == StrV(s)
TxtA == <<"a">>
TxtX == <<"x">>
TxtBob == <<"B", "o", "b">>
TxtBio == <<"M", "e", "t", " ", "J", "o", " ", "S", "m", ".">>

Rec1 ==
    Dict("id" :> IntV(1) @@ "tag" :> Text(TxtA) @@ "name" :> Text(TxtBob)
         @@ "score" :> IntV(10))
Rec2 ==
    Dict("id" :> IntV(2) @@ "score" :> IntV(5) @@ "bio" :> Text(TxtBio))
Rec3 ==
    Dict("id" :> IntV(3) @@ "tag" :> NullV @@ "score" :> FloatV(5)
         @@ "active" :> BoolV(TRUE))

StoreDays == 0..2
Stores ==
    { [d \in StoreDays |->
          CASE d = 0 -> <<Json(Rec1), Json(Rec2)>>
            [] d = 1 -> <<>>
            [] OTHER -> <<Json(Rec3), Json(Rec1)>>],
      [d \in StoreDays |->
          CASE d = 0 -> <<Garbage, Json(Rec3)>>
            [] d = 1 -> <<Json(Rec2), Garbage, Json(Rec1)>>
            [] OTHER -> <<>>],
      [d \in StoreDays |->
          CASE d = 0 -> <<Json(Rec2)>>
            [] d = 1 -> <<Json(NonMap), Json(Rec1)>>
            [] OTHER -> <<Json(Rec3)>>] }

Times == {i * HalfDay : i \in 0..MaxTick}
NowTime == MaxTick * HalfDay

\* a mapping with up to two optional keys
Dict2(k1, o1, k2, o2) ==
    Dict([k \in {x \in {k1} : o1.p} \cup {x \in {k2} : o2.p} |->
             IF k = k1 THEN o1.v ELSE o2.v])

TimeOpts == {Absent, Given(Text(TxtX))} \cup {Given(IntV(t)) : t \in Times}
TimeRanges ==
    {Absent, Given(NonMap)}
        \cup {Given(Dict2("start", s, "end", e)) : s, e \in TimeOpts}

EqFilters ==
    { Absent, Given(NonMap), Given(Dict("tag" :> Text(TxtA))),
      Given(Dict("tag" :> NullV)), Given(Dict("id" :> FloatV(2))) }

LimitOpts ==
    {Absent, Given(Text(TxtX))} \cup {Given(IntV(n)) : n \in -1..MaxPage}
OffsetOpts ==
    {Absent, Given(FloatV(3))} \cup {Given(IntV(n)) : n \in -1..MaxPage}

QueryTypes ==
    {AbsentName, Given("count"), Given("summary"), Given("full"), Given("other")}

QueryRequests ==
    [query_type : QueryTypes, time_range : TimeRanges, filters : EqFilters,
     limit : LimitOpts, offset : OffsetOpts]

Rec4 ==
    Dict("name" :> Text(TxtA) @@ "score" :> Text(TxtX)
         @@ "meta" :> MapV(TxtBio))

\* texts around the name pattern: three title-cased words, a capital inside a
\* word, a digit after the second word, two names joined by a hyphen
TxtThree == <<"A", "l", " ", "B", "o", " ", "E", "b", ".">>
TxtInner == <<"a", "J", "o", " ", "S", "m", " ", "A", "l">>
TxtDigit == <<"J", "o", " ", "S", "m", "2">>
TxtTwice == <<"J", "o", " ", "S", "m", "-", "A", "l", " ", "B", "o">>
Rec5 ==
    Dict("bio" :> Text(TxtThree) @@ "note" :> Text(TxtInner)
         @@ "memo" :> Text(TxtDigit) @@ "refs" :> Text(TxtTwice))

ResultLists ==
    { <<>>, <<Rec1, Rec2>>, <<Rec3, Rec1>>, <<Rec2, NonMap>>, <<Rec4>>,
      <<EmptyDict, Rec3>>, <<Rec3, Rec4>>, <<Rec5>> }
ResultOpts ==
    {Absent, Given(NoneResults)} \cup {Given(ListOf(l)) : l \in ResultLists}

\* rules for one field
RuleSet ==
    { Rules("map", NoRange, NoPattern, NoIn),
      Rules("map", Range(Given(IntV(6)), Absent), NoPattern, NoIn),
      Rules("map", Range(Absent, Given(FloatV(11))), NoPattern, NoIn),
      Rules("map", Range(Given(IntV(5)), Given(IntV(10))), NoPattern, NoIn),
      Rules("map", NoRange, Given(Pattern("prefix", <<"1">>)), NoIn),
      Rules("map", NoRange, Given(Pattern("full", TxtA)), NoIn),
      Rules("map", NoRange, Given(Pattern("invalid", <<>>)), NoIn),
      Rules("map", Range(Given(IntV(1)), Absent), NoPattern,
            Given(Fields(<<IntV(10), Text(TxtA)>>))),
      Rules("none", NoRange, NoPattern, NoIn),
      Rules("list", NoRange, NoPattern, NoIn) }

RulePairs ==
    {<<>>}
        \cup {<<[field |-> f, rules |-> r]>> : f \in {"score", "tag"},
                                               r \in RuleSet}
        \cup {<<[field |-> "tag", rules |-> Rules("map", NoRange, NoPattern,
                                                   NoIn)],
                [field |-> "score", rules |-> r]>> : r \in RuleSet}
FieldRuleOpts ==
    {Absent, Given([isMap |-> FALSE, pairs |-> <<>>])}
        \cup {Given([isMap |-> TRUE, pairs |-> ps]) : ps \in RulePairs}

IncludeOpts ==
    {Absent, Given(NoneFields), Given(Fields(<<>>)),
     Given(Fields(<<"id", "score", "other">>))}
ExcludeOpts ==
    {Absent, Given(NoneFields), Given(Fields(<<"name", "bio", "score">>))}

FilterSpecOpts ==
    {Absent, Given([NoFilterSpec EXCEPT !.isMap = FALSE])}
        \cup {Given([isMap |-> TRUE, include_fields |-> inc,
                     exclude_fields |-> exc, field_rules |-> fr]) :
                 inc \in IncludeOpts, exc \in ExcludeOpts,
                 fr \in FieldRuleOpts}

FilterRequests == [results : ResultOpts, filters : FilterSpecOpts]

FieldsToRedactOpts ==
    {Absent, Given(NoneFields), Given(Fields(<<>>)),
     Given(Fields(<<"name">>)),
     Given(Fields(<<"bio", "score", "meta", "tag", "active">>))}
RedactionCharOpts ==
    {Absent, Given(Text(<<"#">>)), Given(Text(<<"a", "b">>)),
     Given(Text(<<>>)), Given(IntV(3)), Given(NullV)}
PreserveOpts == {Absent, Given(BoolV(FALSE)), Given(BoolV(TRUE)), Given(NullV)}

RedactRequests ==
    [results : ResultOpts, fields_to_redact : FieldsToRedactOpts,
     redaction_character : RedactionCharOpts, preserve_length : PreserveOpts]

Agg1 == Dict("count" :> IntV(3) @@ "mean" :> FloatV(5) @@ "label" :> Text(TxtA))
PrivacyResultOpts ==
    ResultOpts \cup {Given(MappingOf(Agg1)), Given(MappingOf(EmptyDict))}
NumericFieldOpts ==
    {Absent, Given(NoneFields), Given(Fields(<<"score">>)),
     Given(Fields(<<"count", "mean", "label", "active", "tag", "meta">>))}
EpsilonOpts ==
    {Absent, Given(IntV(0)), Given(IntV(-1)), Given(FloatV(1)),
     Given(IntV(2)), Given(BoolV(FALSE)), Given(Text(TxtX)),
     Given(Text(<<"0">>)), Given(NullV)}
SensitivityOpts ==
    {Absent, Given(IntV(0)), Given(IntV(-1)), Given(IntV(2)),
     Given(Text(TxtX)), Given(NullV)}

PrivacyRequests ==
    [results : PrivacyResultOpts, numeric_fields : NumericFieldOpts,
     epsilon : EpsilonOpts, sensitivity : SensitivityOpts]

\* the pipeline request, stage by stage
PipelineQueryParts ==
    LET part(qt, tr, qf, lim, off) ==
            [query_type |-> qt, time_range |-> tr, query_filters |-> qf,
             limit |-> lim, offset |-> off]
    IN  { part(AbsentName, Absent, Absent, Absent, Absent),
          part(Given("full"), Absent, Given(Dict("tag" :> Text(TxtA))),
               Given(IntV(1)), Given(IntV(1))),
          part(Given("count"), Absent, Absent, Absent, Absent),
          part(Given("summary"), Absent, Absent, Absent, Absent),
          part(AbsentName, Given(NonMap), Absent, Absent, Absent),
          part(AbsentName, Absent, Given(NonMap), Absent, Absent),
          part(AbsentName, Absent, Absent, Given(Text(TxtX)), Absent),
          part(AbsentName,
               Given(Dict2("start", Given(IntV(SecondsPerDay)),
                           "end", Given(IntV(0)))),
               Absent, Absent, Absent) }

PipelineFilterParts ==
    LET spec(inc, exc, fr) ==
            Given([isMap |-> TRUE, include_fields |-> inc,
                   exclude_fields |-> exc, field_rules |-> fr])
        on(f, r) == Given([isMap |-> TRUE,
                           pairs |-> <<[field |-> f, rules |-> r]>>])
    IN  { [filters |-> Absent],
          [filters |-> spec(Absent, Given(Fields(<<"tag">>)),
                       on("score", Rules("map", Range(Given(IntV(6)), Absent),
                                         NoPattern, NoIn)))],
          [filters |-> spec(Given(Fields(<<"id", "name", "score">>)), Absent,
                            Absent)],
          [filters |-> Given([NoFilterSpec EXCEPT !.isMap = FALSE])],
          [filters |-> spec(Absent, Absent,
                            Given([isMap |-> FALSE, pairs |-> <<>>]))],
          [filters |-> spec(Absent, Absent,
                       on("tag", Rules("map", Range(Given(IntV(1)), Absent),
                                       NoPattern, NoIn)))] }

PipelineRedactParts ==
    { [fields_to_redact |-> Absent, redaction_character |-> Absent,
       preserve_length |-> Absent],
      [fields_to_redact |-> Given(Fields(<<"name">>)),
       redaction_character |-> Given(Text(<<"#">>)),
       preserve_length |-> Absent],
      [fields_to_redact |-> Given(Fields(<<"name">>)),
       redaction_character |-> Given(NullV),
       preserve_length |-> Given(BoolV(TRUE))],
      [fields_to_redact |-> Given(NoneFields),
       redaction_character |-> Absent,
       preserve_length |-> Given(BoolV(FALSE))] }

PipelinePrivacyParts ==
    LET part(nf, eps, sens) ==
            [numeric_fields |-> nf, epsilon |-> eps, sensitivity |-> sens]
    IN  { part(Absent, Absent, Absent),
          part(Given(Fields(<<"score", "active">>)), Given(IntV(2)),
               Given(IntV(1))),
          part(Given(Fields(<<"score">>)), Given(IntV(0)), Absent),
          part(Given(Fields(<<"score">>)), Given(Text(TxtX)), Absent),
          part(Given(Fields(<<"score">>)), Absent, Given(IntV(-1))),
          part(Given(NoneFields), Absent, Absent) }

PipelineRequests ==
    {q @@ f @@ r @@ p : q \in PipelineQueryParts, f \in PipelineFilterParts,
                        r \in PipelineRedactParts,
                        p \in PipelinePrivacyParts}

----------------------------------------------------------------------------
(* The handlers as actions *)

NoData == [none |-> TRUE]

\* no concurrent invocation is under way
IdleNoise == seed = 0 /\ rng = 0 /\ jobs = <<>>
NoCall == [op |-> "none"]
\* the token store is empty and no HTTP request was made
IdleAuth ==
    /\ authTokens = <<>> /\ userTokens = <<>> /\ clock = 0
    /\ lastCall = NoCall /\ http = NoCall

InitCommon ==
    /\ IdleNoise /\ IdleAuth
    /\ store \in Stores
    /\ now = NowTime
    /\ pc = "start"
    /\ calls = <<>>
    /\ qIn = NoData /\ fIn = NoData /\ rIn = NoData /\ pIn = NoData
    /\ qOut = NoPair /\ fOut = NoPair /\ rOut = NoPair /\ pOut = NoPair
    /\ ret = NoPair
    /\ selected = <<>>
    /\ reads = <<>>
    /\ draws = <<>>

\* the handlers that do not query the archive never read the time zone
InitQuery ==
    entry = "query" /\ data \in QueryRequests /\ zone \in Zones /\ InitCommon
InitFilter ==
    entry = "filter" /\ data \in FilterRequests /\ zone = "fixed"
        /\ InitCommon
InitRedact ==
    entry = "redact" /\ data \in RedactRequests /\ zone = "fixed"
        /\ InitCommon
InitPrivacy ==
    entry = "privacy" /\ data \in PrivacyRequests /\ zone = "fixed"
        /\ InitCommon
InitPipeline ==
    entry = "pipeline" /\ data \in PipelineRequests /\ zone \in Zones
        /\ InitCommon

\* a direct call of query_archives(data)
CallQueryArchives ==
    /\ entry = "query" /\ pc = "start"
    /\ LET r == query_archives(data, store, now, zone) IN
        /\ qIn' = data
        /\ qOut' = r.ret
        /\ ret' = r.ret
        /\ selected' = r.keys
        /\ reads' = r.log
    /\ calls' = Append(calls, "query")
    /\ pc' = "done"
    /\ UNCHANGED <<noiseVars, authVars>>
    /\ UNCHANGED <<zone, entry, store, now, data, fIn, rIn, pIn, fOut, rOut, pOut,
                   draws>>

\* mutant: the filter keeps its output in the request's own results list
CallApplyFiltersInPlace ==
    /\ entry = "filter" /\ pc = "start"
    /\ fIn' = data
    /\ fOut' = apply_filters(data)
    /\ ret' = fOut'
    /\ data' = IF fOut'.status = 200
               THEN [data EXCEPT !.results = Given(ListOf(fOut'.body.recs))]
               ELSE data
    /\ calls' = Append(calls, "filter")
    /\ pc' = "done"
    /\ UNCHANGED <<noiseVars, authVars>>
    /\ UNCHANGED <<zone, entry, store, now, qIn, rIn, pIn, qOut, rOut, pOut,
                   selected, reads, draws>>

\* a direct call of apply_filters(data)
CallApplyFilters ==
    /\ entry = "filter" /\ pc = "start"
    /\ fIn' = data
    /\ fOut' = apply_filters(data)
    /\ ret' = fOut'
    /\ calls' = Append(calls, "filter")
    /\ pc' = "done"
    /\ UNCHANGED <<noiseVars, authVars>>
    /\ UNCHANGED <<zone, entry, store, now, data, qIn, rIn, pIn, qOut, rOut, pOut,
                   selected, reads, draws>>

\* a direct call of redact_names(data)
CallRedactNames ==
    /\ entry = "redact" /\ pc = "start"
    /\ rIn' = data
    /\ rOut' = redact_names(data)
    /\ ret' = rOut'
    /\ calls' = Append(calls, "redact")
    /\ pc' = "done"
    /\ UNCHANGED <<noiseVars, authVars>>
    /\ UNCHANGED <<zone, entry, store, now, data, qIn, fIn, pIn, qOut, fOut, pOut,
                   selected, reads, draws>>

\* a direct call of add_differential_privacy(data)
CallAddDifferentialPrivacy ==
    /\ entry = "privacy" /\ pc = "start"
    /\ \E noise \in NoiseChoices(data) :
          LET r == add_differential_privacy(data, noise) IN
            /\ pOut' = r.ret
            /\ ret' = r.ret
            /\ draws' = r.drawn
    /\ pIn' = data
    /\ calls' = Append(calls, "privacy")
    /\ pc' = "done"
    /\ UNCHANGED <<noiseVars, authVars>>
    /\ UNCHANGED <<zone, entry, store, now, data, qIn, fIn, rIn, qOut, fOut, rOut,
                   selected, reads>>

\* mutant: the orchestrator rejects an epsilon that is not positive before it
\* queries the archives
PipelineQueryEpsilonFirst ==
    /\ entry = "pipeline" /\ pc = "start"
    /\ LET r == query_archives(query_data(data), store, now, zone)
           epsilonV == GetOr(data.epsilon, FloatV(2))
           early == FloatOk(epsilonV) /\ EpsilonRejected(PyFloat2(epsilonV))
       IN  IF early
           THEN /\ ret' = Pair(ErrorBody("Epsilon must be positive"), 400)
                /\ pc' = "done"
                /\ UNCHANGED <<qIn, qOut, selected, reads, calls>>
           ELSE /\ qIn' = query_data(data)
                /\ qOut' = r.ret
                /\ selected' = r.keys
                /\ reads' = r.log
                /\ calls' = Append(calls, "query")
                /\ IF r.ret.status # 200
                   THEN ret' = r.ret /\ pc' = "done"
                   ELSE ret' = ret /\ pc' = "filter"
    /\ UNCHANGED <<noiseVars, authVars>>
    /\ UNCHANGED <<zone, entry, store, now, data, fIn, rIn, pIn, fOut, rOut, pOut,
                   draws>>

\* combined_query_with_privacy, lines 319-331
PipelineQuery ==
    /\ entry = "pipeline" /\ pc = "start"
    /\ LET r == query_archives(query_data(data), store, now, zone) IN
        /\ qIn' = query_data(data)
        /\ qOut' = r.ret
        /\ selected' = r.keys
        /\ reads' = r.log
        /\ IF r.ret.status # 200
           THEN ret' = r.ret /\ pc' = "done"
           ELSE ret' = ret /\ pc' = "filter"
    /\ calls' = Append(calls, "query")
    /\ UNCHANGED <<noiseVars, authVars>>
    /\ UNCHANGED <<zone, entry, store, now, data, fIn, rIn, pIn, fOut, rOut, pOut,
                   draws>>

\* mutant: the filter stage's status is not checked
PipelineFilterUnchecked ==
    /\ entry = "pipeline" /\ pc = "filter"
    /\ LET r == apply_filters(filter_data(data, qOut.body)) IN
        /\ fIn' = filter_data(data, qOut.body)
        /\ fOut' = r
        /\ ret' = ret /\ pc' = "redact"
    /\ calls' = Append(calls, "filter")
    /\ UNCHANGED <<noiseVars, authVars>>
    /\ UNCHANGED <<zone, entry, store, now, data, qIn, rIn, pIn, qOut, rOut, pOut,
                   selected, reads, draws>>

\* combined_query_with_privacy, lines 333-342
PipelineFilter ==
    /\ entry = "pipeline" /\ pc = "filter"
    /\ LET r == apply_filters(filter_data(data, qOut.body)) IN
        /\ fIn' = filter_data(data, qOut.body)
        /\ fOut' = r
        /\ IF r.status # 200
           THEN ret' = r /\ pc' = "done"
           ELSE ret' = ret /\ pc' = "redact"
    /\ calls' = Append(calls, "filter")
    /\ UNCHANGED <<noiseVars, authVars>>
    /\ UNCHANGED <<zone, entry, store, now, data, qIn, rIn, pIn, qOut, rOut, pOut,
                   selected, reads, draws>>

\* combined_query_with_privacy, lines 344-355
PipelineRedact ==
    /\ entry = "pipeline" /\ pc = "redact"
    /\ LET r == redact_names(redact_data(data, fOut.body)) IN
        /\ rIn' = redact_data(data, fOut.body)
        /\ rOut' = r
        /\ IF r.status # 200
           THEN ret' = r /\ pc' = "done"
           ELSE ret' = ret /\ pc' = "privacy"
    /\ calls' = Append(calls, "redact")
    /\ UNCHANGED <<noiseVars, authVars>>
    /\ UNCHANGED <<zone, entry, store, now, data, qIn, fIn, pIn, qOut, fOut, pOut,
                   selected, reads, draws>>

\* combined_query_with_privacy, lines 357-367
PipelinePrivacy ==
    /\ entry = "pipeline" /\ pc = "privacy"
    /\ \E noise \in NoiseChoices(privacy_data(data, rOut.body)) :
          LET r == add_differential_privacy(privacy_data(data, rOut.body),
                                            noise) IN
            /\ pOut' = r.ret
            /\ ret' = r.ret
            /\ draws' = r.drawn
    /\ pIn' = privacy_data(data, rOut.body)
    /\ calls' = Append(calls, "privacy")
    /\ pc' = "done"
    /\ UNCHANGED <<noiseVars, authVars>>
    /\ UNCHANGED <<zone, entry, store, now, data, qIn, fIn, rIn, qOut, fOut, rOut,
                   selected, reads>>

NextQuery == CallQueryArchives
SpecQuery == InitQuery /\ [][NextQuery]_vars

NextFilter == CallApplyFilters
SpecFilter == InitFilter /\ [][NextFilter]_vars

NextRedact == CallRedactNames
SpecRedact == InitRedact /\ [][NextRedact]_vars

\* the redaction stage, called directly or run by the orchestrator
InitRedaction == InitRedact \/ InitPipeline
NextRedaction ==
    \/ CallRedactNames
    \/ PipelineQuery
    \/ PipelineFilter
    \/ PipelineRedact
    \/ PipelinePrivacy
SpecRedaction == InitRedaction /\ [][NextRedaction]_vars

\* the privacy stage, called directly or run by the orchestrator
InitProtection == InitPrivacy \/ InitPipeline
NextProtection ==
    \/ CallAddDifferentialPrivacy
    \/ PipelineQuery
    \/ PipelineFilter
    \/ PipelineRedact
    \/ PipelinePrivacy
SpecProtection == InitProtection /\ [][NextProtection]_vars

NextPrivacy == CallAddDifferentialPrivacy
SpecPrivacy == InitPrivacy /\ [][NextPrivacy]_vars

NextPipeline ==
    PipelineQuery \/ PipelineFilter \/ PipelineRedact \/ PipelinePrivacy
SpecPipeline == InitPipeline /\ [][NextPipeline]_vars

Init == InitQuery \/ InitFilter \/ InitRedact \/ InitPrivacy \/ InitPipeline
Next ==
    \/ CallQueryArchives
    \/ CallApplyFilters
    \/ CallRedactNames
    \/ CallAddDifferentialPrivacy
    \/ PipelineQuery
    \/ PipelineFilter
    \/ PipelineRedact
    \/ PipelinePrivacy
Spec == Init /\ [][Next]_vars

----------------------------------------------------------------------------
(* What a finished call of query_archives was asked, read off qIn *)

QueryDone == "query" \in {calls[i] : i \in 1..Len(calls)} /\ qOut # NoPair

QTimeRange == GetOr(qIn.time_range, EmptyDict)
QStart == GetD(QTimeRange, "start", IntV(0))
QEnd == GetD(QTimeRange, "end", IntV(now))
QTimesValid == QTimeRange.isMap /\ QStart.t = "int" /\ QEnd.t = "int"
QLimitV == GetOr(qIn.limit, IntV(DefaultLimit))
QOffsetV == GetOr(qIn.offset, IntV(0))
QPageValid == IntOk(QLimitV) /\ IntOk(QOffsetV)
QFilters == GetOr(qIn.filters, EmptyDict)

\* the decoded entries of one partition, in stored order
PartitionItems(st, key) ==
    LET kept == SelectSeq(LRange(st, key), LAMBDA e : e.kind = "json")
    IN  [i \in 1..Len(kept) |-> kept[i].item]

\* the decoded entries of the partitions ks[1], ks[2], ..., concatenated
RECURSIVE AllItems(_, _)
AllItems(st, ks) ==
    IF ks = <<>> THEN <<>>
    ELSE PartitionItems(st, Head(ks)) \o AllItems(st, Tail(ks))

\* a record has every filtered key with an equal value
HasEqual(item, filters) ==
    \A k \in Keys(filters) : k \in Keys(item) /\ PyEq(item.f[k], filters.f[k])

\* the entries of the selected partitions the equality filters let through
RetainedOf(ks) ==
    SelectSeq(AllItems(store, ks), LAMBDA it : MatchesFilters(it, QFilters))

\* C5: a stored record is retained iff it has every filtered key with an
\* equal value: the count is the number of such records in the selected
\* partitions, and an unpaginated full result lists exactly them.
C5_RetainedIffHasEqual ==
    (QueryDone /\ qOut.status = 200) =>
        LET want == SelectSeq(AllItems(store, selected),
                              LAMBDA it : HasEqual(it, QFilters))
        IN  /\ qOut.body.count = Len(want)
            /\ ("data" \in qOut.body.keys /\ ~qIn.limit.p /\ ~qIn.offset.p)
                   => qOut.body.recs = want

\* the calendar days that hold an instant of [start, end]
DaysTouched == LocalDayIn(zone, QStart.n) .. LocalDayIn(zone, QEnd.n)
Accessed(op) == {reads[i][2] : i \in {j \in 1..Len(reads) : reads[j][1] = op}}

\* C6: for start <= end, the partition of every calendar day holding an
\* instant of [start, end] is read: its existence is checked and, when it
\* exists, its entries are fetched.
C6_EveryTouchedDayRead ==
    (QueryDone /\ qOut.status = 200 /\ QStart.n <= QEnd.n) =>
        \A d \in DaysTouched :
            /\ d \in Accessed("exists")
            /\ Exists(store, d) => d \in Accessed("lrange")

\* C7 as stated: for all integer offset and limit, a full result has
\* len(data) = min(limit, max(0, count - offset)).
C7_PageLengthAllIntegers ==
    (QueryDone /\ qOut.status = 200 /\ "data" \in qOut.body.keys
       /\ QLimitV.t = "int" /\ QOffsetV.t = "int") =>
        Len(qOut.body.recs) =
            Min(QLimitV.n, Max(0, qOut.body.count - QOffsetV.n))

\* C7 as amended: for offset >= 0 and limit >= 0 (after int()), a full result
\* has len(data) = min(limit, max(0, count - offset)).
C7_PageLengthNonNegative ==
    (QueryDone /\ qOut.status = 200 /\ "data" \in qOut.body.keys
       /\ PyInt(QLimitV) >= 0 /\ PyInt(QOffsetV) >= 0) =>
        Len(qOut.body.recs) =
            Min(PyInt(QLimitV), Max(0, qOut.body.count - PyInt(QOffsetV)))

C7_Witness ==
    /\ QueryDone /\ qOut.status = 200 /\ "data" \in qOut.body.keys
    /\ PyInt(QLimitV) = 1 /\ PyInt(QOffsetV) = 1
    /\ qOut.body.count >= 3
    /\ Len(qOut.body.recs) = 1

\* C8: for every query_type, offset and limit, the count of a status-200
\* result is the number of entries of the selected partitions that the
\* equality filters let through.
C8_CountIsUnpaginated ==
    (QueryDone /\ qOut.status = 200) =>
        /\ "count" \in qOut.body.keys
        /\ qOut.body.count = Len(RetainedOf(selected))

C8_Witness ==
    /\ QueryDone /\ qOut.status = 200
    /\ GetOr(qIn.query_type, "full") = "other"
    /\ PyInt(QLimitV) = 1 /\ PyInt(QOffsetV) = 2
    /\ qOut.body.count = 4
    /\ Len(qOut.body.recs) = 1

\* C9: the page is the slice [offset, offset+limit) of the retained entries
\* of all selected partitions, concatenated in ascending day order and,
\* within a partition, in stored order; it is not taken per partition.
C9_PageOfConcatenation ==
    (QueryDone /\ qOut.status = 200 /\ "data" \in qOut.body.keys) =>
        LET all == RetainedOf(selected)
            offset == PyInt(QOffsetV)
            limit == PyInt(QLimitV)
        IN  /\ \A i, j \in 1..Len(selected) :
                   i < j => selected[i] <= selected[j]
            /\ qOut.body.recs = PySlice(all, offset, offset + limit)
            /\ (offset >= 0 /\ limit >= 0) =>
                 /\ Len(qOut.body.recs) =
                        Max(0, Min(Len(all), offset + limit) - offset)
                 /\ \A i \in 1..Len(qOut.body.recs) :
                        qOut.body.recs[i] = all[offset + i]

\* a page that spans two partitions: its first entry is the last retained
\* entry of one day and its second the first retained entry of a later day
C9_Witness ==
    /\ QueryDone /\ qOut.status = 200 /\ "data" \in qOut.body.keys
    /\ PyInt(QOffsetV) = 1 /\ PyInt(QLimitV) = 2
    /\ Len(selected) >= 2
    /\ Len(qOut.body.recs) = 2
    /\ Len(RetainedOf(<<selected[1]>>)) = 2
    /\ qOut.body.recs[1] = RetainedOf(<<selected[1]>>)[2]
    /\ qOut.body.recs[2] # qOut.body.recs[1]

\* C10: with start > end no partition is selected, the store is not
\* accessed, and the call returns status 200 with count 0 and an empty
\* data or summary.
C10_EmptyRangeIsNotAnError ==
    (QueryDone /\ QPageValid /\ QTimesValid /\ QStart.n > QEnd.n) =>
        /\ selected = <<>>
        /\ reads = <<>>
        /\ qOut.status = 200
        /\ qOut.body.count = 0
        /\ qOut.body.recs = <<>>
        /\ qOut.body.keys \in {{"count"}, {"count", "summary"},
                               {"count", "data"}}

C10_Witness ==
    /\ QueryDone /\ QPageValid /\ QTimesValid /\ QStart.n > QEnd.n
    /\ qOut.status = 200
    /\ Exists(store, LocalDayIn(zone, QStart.n))

----------------------------------------------------------------------------
(* The orchestrator and the error contract *)

StageOrder == <<"query", "filter", "redact", "privacy">>
Called(stage) == \E i \in 1..Len(calls) : calls[i] = stage
Failed(out) == out # NoPair /\ out.status # 200

\* C1: in combined_query_with_privacy, when a stage returns a status other
\* than 200 the pipeline returns that stage's pair unchanged and no later
\* stage is invoked: the calls end with the failing stage, the later stages
\* were handed nothing and returned nothing, and no noise is drawn unless
\* the failing stage is the privacy stage.
C1_ShortCircuit ==
    entry = "pipeline" =>
        /\ Failed(qOut) =>
              /\ pc = "done" /\ ret = qOut /\ calls = SubSeq(StageOrder, 1, 1)
              /\ fIn = NoData /\ rIn = NoData /\ pIn = NoData
              /\ fOut = NoPair /\ rOut = NoPair /\ pOut = NoPair
              /\ DOMAIN draws = {}
        /\ Failed(fOut) =>
              /\ pc = "done" /\ ret = fOut /\ calls = SubSeq(StageOrder, 1, 2)
              /\ rIn = NoData /\ pIn = NoData
              /\ rOut = NoPair /\ pOut = NoPair
              /\ DOMAIN draws = {}
        /\ Failed(rOut) =>
              /\ pc = "done" /\ ret = rOut /\ calls = SubSeq(StageOrder, 1, 3)
              /\ pIn = NoData /\ pOut = NoPair
              /\ DOMAIN draws = {}
        /\ Failed(pOut) =>
              /\ pc = "done" /\ ret = pOut /\ calls = StageOrder

\* the filter stage fails on records the query stage found
C1_Witness ==
    /\ entry = "pipeline" /\ pc = "done"
    /\ qOut.status = 200 /\ Len(qOut.body.recs) >= 2
    /\ fOut.status = 500 /\ ret = fOut
    /\ calls = <<"query", "filter">>

\* C2: in a pipeline run where every stage succeeds, the stages are invoked
\* once each in the order query, filter, redact, privacy; the filter stage is
\* handed the query result's data, the redaction stage the filtered_data,
\* the privacy stage the redacted_data; and the privacy stage's pair is the
\* result.  (A query result without data hands the filter stage [].)
C2_StagesInOrder ==
    entry = "pipeline" =>
        /\ calls = SubSeq(StageOrder, 1, Len(calls))
        /\ Called("filter") =>
              /\ qOut.status = 200
              /\ fIn.results = Given(ListOf(IF "data" \in qOut.body.keys
                                            THEN qOut.body.recs ELSE <<>>))
        /\ Called("redact") =>
              /\ fOut.status = 200 /\ "filtered_data" \in fOut.body.keys
              /\ rIn.results = Given(ListOf(fOut.body.recs))
        /\ Called("privacy") =>
              /\ rOut.status = 200 /\ "redacted_data" \in rOut.body.keys
              /\ pIn.results = Given(ListOf(rOut.body.recs))
        /\ (pc = "done" /\ ret.status = 200) =>
              /\ calls = StageOrder
              /\ pOut.status = 200
              /\ ret = pOut

\* a successful run in which the filter drops a record and projects fields,
\* the redaction masks a name and the privacy stage noises a score
C2_Witness ==
    /\ entry = "pipeline" /\ pc = "done" /\ ret.status = 200
    /\ Len(qOut.body.recs) >= 2
    /\ Len(fOut.body.recs) = 1 /\ fOut.body.recs[1] \notin
           {qOut.body.recs[i] : i \in 1..Len(qOut.body.recs)}
    /\ rOut.body.recs # fOut.body.recs
    /\ ret.body.recs # rOut.body.recs

\* what a finished call of add_differential_privacy was asked
PrivacyDone == Called("privacy") /\ pOut # NoPair
PEpsilonV == GetOr(pIn.epsilon, FloatV(2))
PSensitivityV == GetOr(pIn.sensitivity, FloatV(2))

\* C3: add_differential_privacy called with epsilon <= 0 (and a sensitivity
\* float() accepts) returns status 400 with exactly
\* {"error": "Epsilon must be positive"} and takes no noise draw, whatever
\* results and numeric_fields are.
C3_EpsilonRejected ==
    (PrivacyDone /\ FloatOk(PEpsilonV) /\ PyFloat2(PEpsilonV) <= 0
       /\ FloatOk(PSensitivityV)) =>
        /\ pOut.status = 400
        /\ pOut.body.keys = {"error"}
        /\ pOut.body.error = "Epsilon must be positive"
        /\ pOut.body.recs = <<>>
        /\ pOut.body.meta = NoMeta
        /\ DOMAIN draws = {}
        /\ ret = pOut

\* epsilon = 0 on records that have values to noise
C3_Witness ==
    /\ entry = "privacy" /\ PrivacyDone
    /\ PEpsilonV = IntV(0) /\ FloatOk(PSensitivityV)
    /\ NoiseSlots(pIn) # {}
    /\ pOut.status = 400

\* the pairs returned so far, with the stage that returned each
Returned ==
    {x \in {<<"query", qOut>>, <<"filter", fOut>>, <<"redact", rOut>>,
            <<"privacy", pOut>>, <<"caller", ret>>} : x[2] # NoPair}

----------------------------------------------------------------------------
(* Missing partitions and undecodable entries *)

\* the store with every undecodable entry removed (a partition left without
\* entries is a missing one)
Cleaned(st) ==
    [d \in DOMAIN st |-> SelectSeq(st[d], LAMBDA e : e.kind = "json")]

\* every decodable entry of the selected partitions is an object
AllObjects ==
    \A i \in 1..Len(AllItems(store, selected)) :
        AllItems(store, selected)[i].isMap

\* C11: a missing partition or an undecodable entry never changes the status
\* or the result of a query: the returned pair is the pair the same request
\* gets on the store with the undecodable entries removed, so the decodable
\* entries before and after an undecodable one are all considered; with a
\* valid request over object entries the status is 200 and the count is the
\* number of decodable entries the filters let through.
C11_MalformedAndMissingSkipped ==
    QueryDone =>
        /\ qOut = query_archives(qIn, Cleaned(store), now, zone).ret
        /\ (QPageValid /\ QTimesValid /\ QFilters.isMap /\ AllObjects) =>
              /\ qOut.status = 200
              /\ qOut.body.count = Len(RetainedOf(selected))

\* a query over a missing day and a partition whose undecodable entry lies
\* between two decodable ones, both of which are returned
C11_Witness ==
    /\ QueryDone /\ qOut.status = 200 /\ "data" \in qOut.body.keys
    /\ \E j \in 1..Len(selected) : ~Exists(store, selected[j])
    /\ \E j \in 1..Len(selected) :
          LET part == LRange(store, selected[j]) IN
            /\ Len(part) = 3
            /\ part[1].kind = "json" /\ part[2].kind = "garbage"
            /\ part[3].kind = "json"
            /\ \E a, b \in 1..Len(qOut.body.recs) :
                  /\ a < b
                  /\ qOut.body.recs[a] = part[1].item
                  /\ qOut.body.recs[b] = part[3].item

----------------------------------------------------------------------------
(* What a finished call of apply_filters was asked, read off fIn *)

FilterDone == Called("filter") /\ fOut # NoPair
FResults == GetOr(fIn.results, ListOf(<<>>))
FSpec == GetOr(fIn.filters, NoFilterSpec)
FInclude == GetOr(FSpec.include_fields, Fields(<<>>))
FExclude == GetOr(FSpec.exclude_fields, Fields(<<>>))
FRules == GetOr(FSpec.field_rules, [isMap |-> TRUE, pairs |-> <<>>])

\* value >= bound and value <= bound, between numbers or between texts
AtLeast(v, bound) ==
    \/ IsNum(v) /\ IsNum(bound) /\ Twice(v) >= Twice(bound)
    \/ v.t = "str" /\ bound.t = "str" /\ ~TextLess(v.s, bound.s)
AtMost(v, bound) ==
    \/ IsNum(v) /\ IsNum(bound) /\ Twice(v) <= Twice(bound)
    \/ v.t = "str" /\ bound.t = "str" /\ ~TextLess(bound.s, v.s)

\* the value satisfies every sub-rule configured for its field
SatisfiesRules(v, rules) ==
    /\ rules.kind # "none"
    /\ rules.kind = "map" =>
          /\ (rules.range.p /\ rules.range.v.min.p)
                => AtLeast(v, rules.range.v.min.v)
          /\ (rules.range.p /\ rules.range.v.max.p)
                => AtMost(v, rules.range.v.max.v)
          /\ rules.regex.p =>
                /\ rules.regex.v.kind \in {"prefix", "full"}
                /\ IsPrefix(rules.regex.v.lit, PyStr(v))
                /\ rules.regex.v.kind = "full"
                      => Len(PyStr(v)) = Len(rules.regex.v.lit)
          /\ rules.in.p =>
                /\ rules.in.v.kind = "list"
                /\ \E i \in 1..Len(rules.in.v.elems) :
                      PyEq(v, rules.in.v.elems[i])

\* every ruled field is present and satisfies its rules
SatisfiesAll(item, pairs) ==
    \A i \in 1..Len(pairs) :
        /\ pairs[i].field \in Keys(item)
        /\ SatisfiesRules(item.f[pairs[i].field], pairs[i].rules)

\* C12: apply_filters retains a record iff every field named in field_rules
\* is present in it and its value satisfies every sub-rule of that field
\* (>= min, <= max, both inclusive and optional, regex prefix match,
\* membership in 'in'): a status-200 result holds one output record for each
\* such record, in order, and none for any other.
C12_RetainedIffRulesHold ==
    (FilterDone /\ fOut.status = 200) =>
        LET want == SelectSeq(FResults.items,
                              LAMBDA it : SatisfiesAll(it, FRules.pairs))
        IN  /\ fOut.body.keys = {"filtered_data", "count"}
            /\ fOut.body.count = Len(want)
            /\ Len(fOut.body.recs) = Len(want)
            /\ \A i \in 1..Len(want) :
                   fOut.body.recs[i] = SelectFields(want[i], FInclude, FExclude)

\* score in [5, 10] over scores 2.5 and 10: the record at the upper bound is
\* retained and the one below the lower bound is dropped
C12_Witness ==
    /\ entry = "filter" /\ FilterDone /\ fOut.status = 200
    /\ FResults.items = <<Rec3, Rec1>>
    /\ FRules.pairs =
          <<[field |-> "score",
             rules |-> Rules("map", Range(Given(IntV(5)), Given(IntV(10))),
                             NoPattern, NoIn)]>>
    /\ ~FInclude.kind = "none" /\ FInclude.elems = <<>>
    /\ ~FSpec.exclude_fields.p
    /\ fOut.body.recs = <<Rec1>>

\* the names a list of fields holds
FieldSet(fl) == {fl.elems[i] : i \in 1..Len(fl.elems)}

\* C13: each record that survives apply_filters is output with the key set
\* include_fields /\ keys(record) when include_fields is non-empty
\* (exclude_fields having no effect), and keys(record) \ exclude_fields
\* otherwise; every kept key keeps its original value.
C13_FieldSelection ==
    (FilterDone /\ fOut.status = 200) =>
        LET kept == SelectSeq(FResults.items,
                              LAMBDA it : SatisfiesAll(it, FRules.pairs))
        IN  /\ Len(fOut.body.recs) = Len(kept)
            /\ \A i \in 1..Len(kept) :
                  LET out == fOut.body.recs[i] IN
                    /\ out.isMap
                    /\ Keys(out) =
                          IF FieldSet(FInclude) # {}
                          THEN FieldSet(FInclude) \cap Keys(kept[i])
                          ELSE Keys(kept[i]) \ FieldSet(FExclude)
                    /\ \A k \in Keys(out) : out.f[k] = kept[i].f[k]

\* an included field is also excluded and another is absent from the record:
\* the output has the included fields the record has, the excluded one too
C13_Witness ==
    /\ entry = "filter" /\ FilterDone /\ fOut.status = 200
    /\ FieldSet(FInclude) = {"id", "score", "other"}
    /\ "score" \in FieldSet(FExclude)
    /\ FResults.items = <<Rec1, Rec2>>
    /\ Len(fOut.body.recs) = 2
    /\ Keys(fOut.body.recs[1]) = {"id", "score"}
    /\ fOut.body.recs[1].f["score"] = IntV(10)

----------------------------------------------------------------------------
(* What a finished call of redact_names was asked, read off rIn *)

RedactDone == Called("redact") /\ rOut # NoPair
RResults == GetOr(rIn.results, ListOf(<<>>))
RFields == GetOr(rIn.fields_to_redact, DefaultFieldsToRedact)
RChar == GetOr(rIn.redaction_character, StrV(<<"*">>))
RPreserve == GetOr(rIn.preserve_length, BoolV(TRUE))

\* the (record index, key) pairs of a successful redaction
RSlots ==
    {sl \in (1..Len(RResults.items)) \X
            UNION {Keys(RResults.items[i]) : i \in 1..Len(RResults.items)} :
        sl[2] \in Keys(RResults.items[sl[1]])}
RValueIn(sl) == RResults.items[sl[1]].f[sl[2]]
RValueOut(sl) == rOut.body.recs[sl[1]].f[sl[2]]

\* C14: in a successful redaction every text value of a field listed in
\* fields_to_redact is replaced, when preserve_length is true, by a text of
\* the original length made of the redaction character alone, whatever
\* redaction_character the request supplies, and by "[REDACTED]" when
\* preserve_length is false.
C14_MaskSameLength ==
    (RedactDone /\ rOut.status = 200) =>
        \A sl \in RSlots :
            (InFields(sl[2], RFields) /\ RValueIn(sl).t = "str") =>
                IF Truthy(RPreserve)
                THEN /\ RValueOut(sl).t = "str"
                     /\ Len(RValueOut(sl).s) = Len(RValueIn(sl).s)
                     /\ \A j \in 1..Len(RValueOut(sl).s) :
                            <<RValueOut(sl).s[j]>> = RChar.s
                ELSE RValueOut(sl) = StrV(Redacted)

\* C15: a successful redaction copies every value that is not a text
\* (number, boolean, null, nested mapping) unchanged, listed in
\* fields_to_redact or not; the text inside a nested mapping is not
\* rewritten; and each output record has the keys of its input record.
C15_NonTextUnchanged ==
    (RedactDone /\ rOut.status = 200) =>
        /\ Len(rOut.body.recs) = Len(RResults.items)
        /\ \A i \in 1..Len(RResults.items) :
               Keys(rOut.body.recs[i]) = Keys(RResults.items[i])
        /\ \A sl \in RSlots :
               RValueIn(sl).t # "str" => RValueOut(sl) = RValueIn(sl)

\* null, a float, a boolean and a nested mapping whose text holds a name, in
\* listed fields, are all returned as they were
C15_Witness ==
    /\ entry = "redact" /\ RedactDone /\ rOut.status = 200
    /\ RResults.items = <<Rec3, Rec4>>
    /\ \A k \in {"meta", "tag", "active", "score"} : InFields(k, RFields)
    /\ NameSub(Rec4.f["meta"].s, 1) # Rec4.f["meta"].s
    /\ RValueOut(<<2, "meta">>) = Rec4.f["meta"]
    /\ RValueOut(<<1, "tag">>) = NullV
    /\ RValueOut(<<1, "active">>) = BoolV(TRUE)
    /\ RValueOut(<<1, "score">>) = FloatV(5)
    /\ RValueOut(<<2, "score">>) # RValueIn(<<2, "score">>)

\* text[i..k] is two title-cased words (an uppercase letter followed by one
\* or more lowercase letters) separated by one space, starting and ending at
\* a word boundary
IsOccurrence(text, i, k) ==
    /\ 1 <= i /\ k <= Len(text)
    /\ i = 1 \/ ~IsWord(text[i - 1])
    /\ k = Len(text) \/ ~IsWord(text[k + 1])
    /\ \E j \in (i + 1)..(k - 3) :
          /\ IsUpper(text[i])
          /\ \A m \in (i + 1)..j : IsLower(text[m])
          /\ text[j + 1] = " "
          /\ IsUpper(text[j + 2])
          /\ \A m \in (j + 3)..k : IsLower(text[m])
Occurrences(text) ==
    {o \in (1..Len(text)) \X (1..Len(text)) : IsOccurrence(text, o[1], o[2])}

\* the occurrences taken left to right without overlap, from index i on
RECURSIVE Chosen(_, _)
Chosen(text, i) ==
    LET cands == {o \in Occurrences(text) : o[1] >= i}
        first == CHOOSE o \in cands : \A x \in cands : o[1] <= x[1]
    IN  IF cands = {} THEN {} ELSE {first} \cup Chosen(text, first[2] + 1)

\* the text with each chosen occurrence replaced, from index i on
RECURSIVE Replaced(_, _, _)
Replaced(text, chosen, i) ==
    IF i > Len(text) THEN <<>>
    ELSE IF \E o \in chosen : o[1] = i
    THEN LET o == CHOOSE x \in chosen : x[1] = i
         IN  Redacted \o Replaced(text, chosen, o[2] + 1)
    ELSE <<text[i]>> \o Replaced(text, chosen, i + 1)

\* C16: a text value of a field not listed in fields_to_redact is returned
\* with every left-to-right, non-overlapping occurrence of two title-cased
\* words separated by one space replaced by "[REDACTED]" and every other
\* character unchanged; a value without an occurrence is returned unchanged.
C16_NamePatternScan ==
    (RedactDone /\ rOut.status = 200) =>
        \A sl \in RSlots :
            (~InFields(sl[2], RFields) /\ RValueIn(sl).t = "str") =>
                LET text == RValueIn(sl).s IN
                  /\ RValueOut(sl) =
                        StrV(Replaced(text, Chosen(text, 1), 1))
                  /\ Occurrences(text) = {} => RValueOut(sl) = RValueIn(sl)

\* three title-cased words (the first two are replaced, the third stays), a
\* capital inside a word (not a start), a second word ending in a digit (no
\* occurrence) and two occurrences in one value
C16_Witness ==
    /\ entry = "redact" /\ RedactDone /\ rOut.status = 200
    /\ RResults.items = <<Rec5>> /\ RFields.elems = <<"name">>
    /\ Cardinality(Occurrences(TxtThree)) = 2
    /\ RValueOut(<<1, "bio">>) = StrV(Redacted \o <<" ", "E", "b", ".">>)
    /\ RValueOut(<<1, "note">>) = StrV(<<"a", "J", "o", " ">> \o Redacted)
    /\ RValueOut(<<1, "memo">>) = StrV(TxtDigit)
    /\ RValueOut(<<1, "refs">>) = StrV(Redacted \o <<"-">> \o Redacted)

\* C17: when the request does not supply fields_to_redact, a successful
\* redaction stage, called directly or run by the orchestrator, masks the
\* whole value of every text field named name, full_name or username.
C17_DefaultFieldsMasked ==
    (entry \in {"redact", "pipeline"} /\ ~data.fields_to_redact.p
       /\ RedactDone /\ rOut.status = 200) =>
        \A sl \in RSlots :
            (sl[2] \in {"name", "full_name", "username"}
               /\ RValueIn(sl).t = "str") =>
                RValueOut(sl) =
                    IF Truthy(RPreserve)
                    THEN Mask(RChar, Len(RValueIn(sl).s))
                    ELSE StrV(Redacted)

----------------------------------------------------------------------------
(* What a finished call of add_differential_privacy was asked and returned *)

PResults == GetOr(pIn.results, ListOf(<<>>))
PNumeric == GetOr(pIn.numeric_fields, Fields(<<>>))

\* the (record index, key) pairs of a successful privacy stage; an aggregate
\* mapping is record 1
PSlots ==
    {sl \in (1..Len(PResults.items)) \X
            UNION {Keys(PResults.items[i]) : i \in 1..Len(PResults.items)} :
        sl[2] \in Keys(PResults.items[sl[1]])}
PValueIn(sl) == PResults.items[sl[1]].f[sl[2]]
PValueOut(sl) == pOut.body.recs[sl[1]].f[sl[2]]

\* C18: a successful privacy stage changes a value only when its field is
\* listed in numeric_fields and the value is a number: a text, boolean, null
\* or nested mapping is returned with an equal value even when its field is
\* listed, and so is every value of a field that is not listed.
C18_OnlyListedNumbersChange ==
    (PrivacyDone /\ pOut.status = 200) =>
        \A sl \in PSlots :
            (~InFields(sl[2], PNumeric)
               \/ PValueIn(sl).t \notin {"int", "float"}) =>
                PyEq(PValueOut(sl), PValueIn(sl))

\* the draw taken for a value, in halves
PDraw(sl) == draws[sl]

\* C19: in a successful privacy stage, on a record sequence or an aggregate
\* mapping, a noised value that was an integer is output as an integer
\* nearest to value + noise, and a noised value that was a float is output
\* as the float value + noise, not rounded.
C19_IntegersStayIntegers ==
    (PrivacyDone /\ pOut.status = 200) =>
        \A sl \in PSlots :
            (InFields(sl[2], PNumeric) /\ IsNum(PValueIn(sl))) =>
                /\ sl \in DOMAIN draws
                /\ IF IsInt(PValueIn(sl))
                   THEN /\ PValueOut(sl).t = "int"
                        /\ 2 * PValueOut(sl).n - (2 * PValueIn(sl).n + PDraw(sl))
                              \in -1..1
                   ELSE /\ PValueOut(sl).t = "float"
                        /\ PValueOut(sl).n = PValueIn(sl).n + PDraw(sl)

\* an aggregate mapping: the count 3 with a draw of -0.5 becomes the integer
\* 2, and the mean 2.5 with a draw of -0.5 becomes the float 2.0
C19_Witness ==
    /\ entry = "privacy" /\ PrivacyDone /\ pOut.status = 200
    /\ PResults = MappingOf(Agg1)
    /\ pOut.body.shape = "map"
    /\ InFields("count", PNumeric) /\ InFields("mean", PNumeric)
    /\ PDraw(<<1, "count">>) = -1 /\ PDraw(<<1, "mean">>) = -1
    /\ PValueOut(<<1, "count">>) = IntV(2)
    /\ PValueOut(<<1, "mean">>) = FloatV(4)

\* C20: every status-200 result of the privacy stage, and so of a pipeline
\* run, has privacy_protected_data and privacy_metadata = {epsilon,
\* sensitivity, mechanism "Laplace"} with the float values of the epsilon and
\* sensitivity the stage was given; it has count, equal to the number of
\* output records, iff the input results was a sequence; it has no other key.
C20_PrivacyEnvelope ==
    /\ (PrivacyDone /\ pOut.status = 200) =>
          /\ {"privacy_protected_data", "privacy_metadata"}
                \subseteq pOut.body.keys
          /\ pOut.body.keys \subseteq
                {"privacy_protected_data", "privacy_metadata", "count"}
          /\ pOut.body.meta =
                [epsilon |-> PyFloat2(PEpsilonV),
                 sensitivity |-> PyFloat2(PSensitivityV),
                 mechanism |-> "Laplace"]
          /\ "count" \in pOut.body.keys <=> PResults.kind = "list"
          /\ Len(pOut.body.recs) = Len(PResults.items)
          /\ "count" \in pOut.body.keys =>
                pOut.body.count = Len(pOut.body.recs)
    /\ (entry = "pipeline" /\ pc = "done" /\ ret.status = 200) =>
          /\ PrivacyDone /\ ret = pOut
          /\ "count" \in ret.body.keys

\* an aggregate mapping given with epsilon 2 and sensitivity 2: the result
\* has the protected mapping and the metadata, and no count
C20_Witness ==
    /\ entry = "privacy" /\ PrivacyDone /\ pOut.status = 200
    /\ PResults = MappingOf(Agg1)
    /\ PEpsilonV = IntV(2) /\ PSensitivityV = IntV(2)
    /\ pOut.body.keys = {"privacy_protected_data", "privacy_metadata"}
    /\ pOut.body.meta.epsilon = 4 /\ pOut.body.meta.sensitivity = 4
    /\ pOut.body.recs # <<Agg1>>

----------------------------------------------------------------------------
(* The partition-key enumeration *)

\* C28: for integer start and end the key enumeration yields exactly
\* floor((end - start) / 86400) + 1 keys when start <= end and none
\* otherwise, in ascending day order with no key repeated.
C28_KeysCountedAscendingDistinct ==
    (QueryDone /\ QPageValid /\ QTimesValid) =>
        /\ Len(selected) =
              IF QStart.n <= QEnd.n
              THEN ((QEnd.n - QStart.n) \div SecondsPerDay) + 1
              ELSE 0
        /\ \A i, j \in 1..Len(selected) :
               i < j => selected[i] < selected[j]

----------------------------------------------------------------------------
(* Concurrent invocations of the privacy stage and the noise source *)

\* np.random.laplace draws from the generator of the numpy module, one for
\* the whole process: the k-th draw after np.random.seed(sd) is a fixed
\* function of sd and k (here a value in -2 .. 2 halves)
LaplaceDraw(sd, k) == ((2 * sd + 3 * k) % 5) - 2

Seeds == 0..MaxSeed

\* the requests of the concurrent invocations: valid, noising the scores
JobRecords == { <<>>, <<Rec1>>, <<Rec1, Rec2>>, <<Rec3, Rec1>> }
JobRequests ==
    { [results |-> Given(ListOf(l)),
       numeric_fields |-> Given(Fields(<<"score">>)),
       epsilon |-> Absent, sensitivity |-> Absent] : l \in JobRecords }
JobIds == 1..2

\* the value the loop of lines 253-269 noises next, given the draws taken
PendingSlots(req, drawn) == NoiseSlots(req) \ DOMAIN drawn
NextSlot(req, drawn) ==
    CHOOSE sl \in PendingSlots(req, drawn) :
        \A x \in PendingSlots(req, drawn) : sl[1] <= x[1]

InitConcurrent ==
    /\ entry = "concurrent" /\ data = NoData /\ zone = "fixed"
    /\ IdleAuth
    /\ store \in Stores
    /\ now = NowTime
    /\ pc = "start"
    /\ calls = <<>>
    /\ qIn = NoData /\ fIn = NoData /\ rIn = NoData /\ pIn = NoData
    /\ qOut = NoPair /\ fOut = NoPair /\ rOut = NoPair /\ pOut = NoPair
    /\ ret = NoPair
    /\ selected = <<>>
    /\ reads = <<>>
    /\ draws = <<>>
    /\ seed \in Seeds /\ rng = 0
    /\ jobs \in [JobIds -> {[req |-> r, drawn |-> <<>>, pc |-> "run",
                              ret |-> NoPair] : r \in JobRequests}]

\* line 260 in invocation j: one draw from the generator of the process
JobDraw(j) ==
    /\ entry = "concurrent" /\ jobs[j].pc = "run"
    /\ PendingSlots(jobs[j].req, jobs[j].drawn) # {}
    /\ jobs' = [jobs EXCEPT ![j].drawn =
                    @ @@ (NextSlot(jobs[j].req, jobs[j].drawn) :>
                              LaplaceDraw(seed, rng))]
    /\ rng' = rng + 1
    /\ UNCHANGED <<seed, authVars>>
    /\ UNCHANGED <<entry, store, now, data, pc, calls, qIn, fIn, rIn, pIn,
                   qOut, fOut, rOut, pOut, ret, selected, reads, draws, zone>>

\* lines 273-303 in invocation j: every value is noised, the pair is returned
JobReturn(j) ==
    /\ entry = "concurrent" /\ jobs[j].pc = "run"
    /\ PendingSlots(jobs[j].req, jobs[j].drawn) = {}
    /\ jobs' = [jobs EXCEPT
                    ![j].ret = add_differential_privacy(jobs[j].req,
                                                        jobs[j].drawn).ret,
                    ![j].pc = "done"]
    /\ UNCHANGED <<seed, rng, authVars>>
    /\ UNCHANGED <<entry, store, now, data, pc, calls, qIn, fIn, rIn, pIn,
                   qOut, fOut, rOut, pOut, ret, selected, reads, draws, zone>>

NextConcurrent == \E j \in JobIds : JobDraw(j) \/ JobReturn(j)
SpecConcurrent == InitConcurrent /\ [][NextConcurrent]_vars

\* the draws an invocation takes when it runs alone after np.random.seed(sd)
RECURSIVE AloneDraws(_, _, _, _)
AloneDraws(req, sd, k, drawn) ==
    IF PendingSlots(req, drawn) = {} THEN drawn
    ELSE AloneDraws(req, sd, k + 1,
                    drawn @@ (NextSlot(req, drawn) :> LaplaceDraw(sd, k)))
RunAlone(req, sd) ==
    add_differential_privacy(req, AloneDraws(req, sd, 0, <<>>)).ret

\* C21: no state written by one invocation, the state of the noise source
\* included, is read by another: in every interleaving of two invocations,
\* the result of each is the result it produces when run alone with the same
\* request and the same seed.
C21_ResultAsWhenRunAlone ==
    entry = "concurrent" =>
        \A j \in JobIds :
            jobs[j].pc = "done" => jobs[j].ret = RunAlone(jobs[j].req, seed)

----------------------------------------------------------------------------
(* Frame conditions of the stages *)

\* what a step leaves as it was: the request, the store, and every mapping
\* handed to a stage and every pair a stage returned (the records a later
\* stage is given are those an earlier stage returned)
KeepsInputs ==
    /\ data' = data
    /\ store' = store
    /\ \A io \in {<<qIn, qIn'>>, <<fIn, fIn'>>, <<rIn, rIn'>>, <<pIn, pIn'>>} :
           io[1] # NoData => io[2] = io[1]
    /\ \A io \in {<<qOut, qOut'>>, <<fOut, fOut'>>, <<rOut, rOut'>>,
                   <<pOut, pOut'>>} :
           io[1] # NoPair => io[2] = io[1]

\* the store has received existence checks and reads, each of a selected
\* partition, and nothing else
ReadsOnly ==
    \A i \in 1..Len(reads) :
        /\ reads[i][1] \in {"exists", "lrange"}
        /\ \E j \in 1..Len(selected) : selected[j] = reads[i][2]

\* a mapping handed to a stage holds what the caller's request holds
HandedAsGiven ==
    /\ (entry = "query" /\ qIn # NoData) => qIn = data
    /\ (entry = "filter" /\ fIn # NoData) => fIn = data
    /\ (entry = "redact" /\ rIn # NoData) => rIn = data
    /\ (entry = "privacy" /\ pIn # NoData) => pIn = data

\* C22: no stage modifies what it is given: whatever the status, the request
\* mapping, the record sequence handed to each stage and its records are
\* after the call what they were before it, and the archive store is never
\* written, receiving existence checks and reads only.
C22_StagesModifyNothing ==
    [](ReadsOnly /\ HandedAsGiven) /\ [][KeepsInputs]_vars

\* a pipeline run that read the store and whose filter stage returned
\* records other than the ones it was given, which are still as the query
\* stage returned them
C22_Witness ==
    /\ entry = "pipeline" /\ pc = "done" /\ ret.status = 200
    /\ Len(reads) >= 2
    /\ Len(qOut.body.recs) >= 2
    /\ fOut.body.recs # qOut.body.recs
    /\ fIn.results = Given(ListOf(qOut.body.recs))
    /\ rOut.body.recs # fOut.body.recs

----------------------------------------------------------------------------
(* The token store of src/utils.py and the token check of the HTTP modules *)

Tokens == {"t1", "t2"}
Users == {"alice", "bob"}
ExpiresIn == {0, 1, MaxTtl}

\* a Redis key with an expiry is gone once the clock reaches the expiry
LiveKeys(table, t) == {k \in DOMAIN table : t < table[k].exp}
\* redis_client.get(f"auth_token:{token}"): the user name, "" for None
GetUser(token) ==
    IF token \in LiveKeys(authTokens, clock) THEN authTokens[token].user
    ELSE ""
\* redis_client.lrange(user_tokens_key, 0, -1)
TokenList(user) ==
    IF user \in LiveKeys(userTokens, clock) THEN userTokens[user].list
    ELSE <<>>
\* the table with key k set to v, and with the keys ks deleted
SetKey(table, k, v) ==
    [x \in DOMAIN table \cup {k} |-> IF x = k THEN v ELSE table[x]]
DelKeys(table, ks) == [x \in DOMAIN table \ ks |-> table[x]]

\* the expiry of a key set at the clock for ttl seconds; every expiry past
\* the last value of the clock is the same one
Expiry(ttl) ==
    IF clock + ttl > MaxClock THEN MaxClock + 1 ELSE clock + ttl

InitAuth ==
    /\ entry = "auth" /\ data = NoData /\ zone = "fixed"
    /\ IdleNoise /\ IdleAuth
    /\ store = [d \in StoreDays |-> <<>>]
    /\ now = NowTime
    /\ pc = "start"
    /\ calls = <<>>
    /\ qIn = NoData /\ fIn = NoData /\ rIn = NoData /\ pIn = NoData
    /\ qOut = NoPair /\ fOut = NoPair /\ rOut = NoPair /\ pOut = NoPair
    /\ ret = NoPair
    /\ selected = <<>>
    /\ reads = <<>>
    /\ draws = <<>>

StageVarsUnchanged ==
    UNCHANGED <<entry, store, now, data, pc, calls, qIn, fIn, rIn, pIn,
                qOut, fOut, rOut, pOut, ret, selected, reads, draws, zone,
                noiseVars>>

\* lastCall holds the latest call of the token functions and http the latest
\* request, whichever came last; the other one is NoCall
Call(op, user, token, known, r) ==
    [op |-> op, user |-> user, token |-> token, known |-> known, ret |-> r]

\* a token is made anew at each login: the store holds no entry for it and
\* no user's list names it
Unused(token) ==
    /\ token \notin DOMAIN authTokens
    /\ \A u \in Users :
          \A i \in 1..Len(TokenList(u)) : TokenList(u)[i] # token

\* store_token(username, token, expires_in), utils.py lines 115-127: Redis
\* rejects SET with an expiry that is not positive, which is caught
StoreToken(username, token, expires_in) ==
    /\ entry = "auth"
    /\ Unused(token)
    /\ IF expires_in <= 0
       THEN /\ UNCHANGED <<authTokens, userTokens>>
            /\ lastCall' = Call("store_token", username, token, FALSE, FALSE)
       ELSE /\ authTokens' =
                 SetKey(authTokens, token,
                        [user |-> username, exp |-> Expiry(expires_in)])
            /\ userTokens' =
                 SetKey(userTokens, username,
                        [list |-> Append(TokenList(username), token),
                         exp |-> Expiry(expires_in * 2)])
            /\ lastCall' = Call("store_token", username, token, FALSE, TRUE)
    /\ http' = NoCall
    /\ UNCHANGED clock
    /\ StageVarsUnchanged

\* revoke_token(token), utils.py lines 139-151
RevokeToken(token) ==
    /\ entry = "auth"
    /\ IF GetUser(token) = ""
       THEN /\ UNCHANGED <<authTokens, userTokens>>
            /\ lastCall' = Call("revoke_token", "", token, FALSE, FALSE)
       ELSE /\ authTokens' = DelKeys(authTokens, {token})
            /\ UNCHANGED userTokens
            /\ lastCall' =
                 Call("revoke_token", GetUser(token), token, TRUE, TRUE)
    /\ http' = NoCall
    /\ UNCHANGED clock
    /\ StageVarsUnchanged

\* revoke_all_user_tokens(username), utils.py lines 163-178
RevokeAllUserTokens(username) ==
    /\ entry = "auth"
    /\ authTokens' =
          DelKeys(authTokens,
                  {TokenList(username)[i] : i \in 1..Len(TokenList(username))})
    /\ userTokens' = DelKeys(userTokens, {username})
    /\ lastCall' = Call("revoke_all_user_tokens", username, "", FALSE, TRUE)
    /\ http' = NoCall
    /\ UNCHANGED clock
    /\ StageVarsUnchanged

\* one second passes; Redis drops the keys whose expiry is reached
Tick ==
    /\ entry = "auth" /\ clock < MaxClock
    /\ clock' = clock + 1
    /\ authTokens' =
          DelKeys(authTokens, DOMAIN authTokens \ LiveKeys(authTokens, clock + 1))
    /\ userTokens' =
          DelKeys(userTokens, DOMAIN userTokens \ LiveKeys(userTokens, clock + 1))
    /\ UNCHANGED <<lastCall, http>>
    /\ StageVarsUnchanged

Modules == {"api_server", "api_endpoints"}
ProtectedEndpoints ==
    {"/api/query", "/api/filter", "/api/redact", "/api/privacy",
     "/api/secure-query"}
\* the token of the Authorization header, "" when the header is missing
HeaderTokens == {""} \cup Tokens \cup {"bogus"}

\* is_valid_token of api-endpoints.py
is_valid_token(token) == TRUE
\* get_user_id_from_token of api-endpoints.py
get_user_id_from_token(token) == "user123"

\* the answer of token_required of the module to a request with the token:
\* whether the wrapped handler runs, and the user name it is given
token_required(module, token) ==
    IF token = "" THEN [status |-> 401, ran |-> FALSE, user |-> ""]
    ELSE IF module = "api_server"
    THEN IF GetUser(token) = ""
         THEN [status |-> 401, ran |-> FALSE, user |-> ""]
         ELSE [status |-> 200, ran |-> TRUE, user |-> GetUser(token)]
    ELSE IF ~is_valid_token(token)
         THEN [status |-> 401, ran |-> FALSE, user |-> ""]
         ELSE [status |-> 200, ran |-> TRUE,
               user |-> get_user_id_from_token(token)]

\* a request to a protected endpoint of one of the two HTTP modules; bound
\* records the user the token store held for the token at that moment
HttpRequest(module, endpoint, token) ==
    /\ entry = "auth"
    /\ http' = [op |-> "request", module |-> module, endpoint |-> endpoint,
                token |-> token, bound |-> GetUser(token),
                answer |-> token_required(module, token)]
    /\ lastCall' = NoCall
    /\ UNCHANGED <<authTokens, userTokens, clock>>
    /\ StageVarsUnchanged

NextAuth ==
    \/ \E u \in Users, t \in Tokens, e \in ExpiresIn : StoreToken(u, t, e)
    \/ \E t \in Tokens : RevokeToken(t)
    \/ \E u \in Users : RevokeAllUserTokens(u)
    \/ Tick
    \/ \E m \in Modules, p \in ProtectedEndpoints, t \in HeaderTokens :
          HttpRequest(m, p, t)

SpecAuth == InitAuth /\ [][NextAuth]_vars

----------------------------------------------------------------------------
(* C23: the protected endpoints refuse requests without a valid token *)

\* C23: a request to a protected endpoint of either HTTP module that has no
\* Authorization header, or whose token is bound to no user when the request
\* is made, is answered 401 without running the stage handler; the handler
\* runs only for a token that is bound to a user at that moment.
C23_ProtectedEndpointsRefuse ==
    (http # NoCall /\ http.endpoint \in ProtectedEndpoints) =>
        /\ (http.token = "" \/ http.bound = "") =>
               (http.answer.status = 401 /\ ~http.answer.ran)
        /\ http.answer.ran => (http.token # "" /\ http.bound # "")

----------------------------------------------------------------------------
(* C29: revoking tokens *)

\* the token is accepted: its auth_token entry is present and not expired
Accepted(token) == GetUser(token) # ""

\* C29: after revoke_all_user_tokens(username) returned True no token of
\* that user is still accepted, however many seconds pass afterwards; after
\* revoke_token(token) returned True the token is not accepted; and
\* revoke_token on a token the store does not hold returns False and leaves
\* the store as it was.
C29_RevokedTokensRefused ==
    /\ [](/\ (lastCall.op = "revoke_all_user_tokens" /\ lastCall.ret) =>
              \A t \in Tokens :
                  Accepted(t) => authTokens[t].user # lastCall.user
          /\ (lastCall.op = "revoke_token" /\ lastCall.ret) =>
              ~Accepted(lastCall.token))
    /\ [][\A t \in Tokens :
            (RevokeToken(t) /\ ~Accepted(t)) =>
                /\ ~lastCall'.ret
                /\ authTokens' = authTokens /\ userTokens' = userTokens]_vars

----------------------------------------------------------------------------
(* C25: malformed field_rules *)

\* field_rules is no mapping from field name to a rule mapping
MalformedRules ==
    \/ ~FRules.isMap
    \/ \E i \in 1..Len(FRules.pairs) : FRules.pairs[i].rules.kind # "map"

\* results is a sequence of records
RecordSequence(results) ==
    /\ results.kind = "list"
    /\ \A i \in 1..Len(results.items) : results.items[i].isMap

\* C25: the filter stage given a filter mapping with malformed field_rules
\* returns status 500 with an error body for every sequence of records, and
\* a pipeline run with such field_rules ends at the filter stage with that
\* pair.
C25_MalformedRulesRejected ==
    (FilterDone /\ FSpec.isMap /\ MalformedRules /\ RecordSequence(FResults)) =>
        /\ fOut.status = 500 /\ fOut.body.keys = {"error"}
        /\ entry = "pipeline" =>
              /\ pc = "done" /\ ret = fOut
              /\ calls = SubSeq(StageOrder, 1, 2)

----------------------------------------------------------------------------
(* C26: in a pipeline run epsilon is checked last *)

\* the epsilon of the pipeline request
DEpsilonV == GetOr(data.epsilon, FloatV(2))
DEpsilonNotPositive == FloatOk(DEpsilonV) /\ PyFloat2(DEpsilonV) <= 0
EarlierStagesOk ==
    qOut.status = 200 /\ fOut.status = 200 /\ rOut.status = 200
\* the 400 of an epsilon that is not positive comes from the privacy stage,
\* run last, and an earlier failure is returned in its place
EpsilonCheckedLast ==
    /\ ret.status = 400 =>
          /\ EarlierStagesOk /\ calls = StageOrder /\ ret = pOut
          /\ pOut.body.error = "Epsilon must be positive"
    /\ ~Called("privacy") => ret.status # 400
    /\ (pc = "done" /\ Failed(qOut)) => ret = qOut
    /\ (pc = "done" /\ Failed(fOut)) => ret = fOut
    /\ (pc = "done" /\ Failed(rOut)) => ret = rOut
    /\ (pc = "done" /\ EarlierStagesOk /\ FloatOk(GetOr(data.sensitivity,
                                                         FloatV(2)))) =>
          ret.status = 400

\* C26 as stated: ... and the archive store is read before the invalid
\* epsilon is reported.
C26_AsStated ==
    (entry = "pipeline" /\ DEpsilonNotPositive) =>
        /\ EpsilonCheckedLast
        /\ ret.status = 400 => reads # <<>>

\* C26: in a pipeline run with an epsilon that is not positive, status 400 is
\* returned only by the privacy stage after query, filter and redaction all
\* returned 200, an earlier stage's failure is returned otherwise, and when
\* the 400 is reported the query stage has made its archive accesses: the
\* existence check of every selected partition, which is none for an empty
\* time range.
C26_EpsilonCheckedLast ==
    (entry = "pipeline" /\ DEpsilonNotPositive) =>
        /\ EpsilonCheckedLast
        /\ ret.status = 400 =>
              /\ QueryDone
              /\ \A i \in 1..Len(selected) : selected[i] \in Accessed("exists")
              /\ reads = <<>> <=> selected = <<>>

C26_Witness ==
    /\ entry = "pipeline" /\ pc = "done" /\ DEpsilonNotPositive
    /\ ret.status = 400 /\ calls = StageOrder
    /\ Len(reads) >= 2
    /\ Len(rOut.body.recs) >= 1

----------------------------------------------------------------------------
(* C27: a count or summary query through the pipeline *)

DEpsilonPositive == FloatOk(DEpsilonV) /\ PyFloat2(DEpsilonV) > 0
\* the request's filters is a mapping (or left out) and float() accepts its
\* sensitivity
DFiltersValid == GetOr(data.filters, NoFilterSpec).isMap
DSensitivityValid == FloatOk(GetOr(data.sensitivity, FloatV(2)))

\* C27: in a pipeline run with query_type "count" or "summary" whose query
\* stage succeeds, the query result has no 'data' key and the filter stage is
\* handed an empty sequence; with epsilon > 0 (filters a mapping and a
\* sensitivity float() accepts) the run returns status 200 with
\* privacy_protected_data = [], count = 0 and the privacy metadata only,
\* whatever count and summary the query returned.
C27_CountAndSummaryYieldNothing ==
    (entry = "pipeline" /\ QueryDone /\ qOut.status = 200
       /\ qIn.query_type.v \in {"count", "summary"}) =>
        /\ "data" \notin qOut.body.keys
        /\ Called("filter") => fIn.results = Given(ListOf(<<>>))
        /\ (pc = "done" /\ DEpsilonPositive /\ DFiltersValid
              /\ DSensitivityValid) =>
              /\ ret.status = 200
              /\ ret.body.keys =
                    {"privacy_protected_data", "count", "privacy_metadata"}
              /\ ret.body.shape = "seq"
              /\ ret.body.recs = <<>>
              /\ ret.body.count = 0

C27_Witness ==
    /\ entry = "pipeline" /\ pc = "done"
    /\ qIn.query_type.v = "summary"
    /\ qOut.status = 200 /\ qOut.body.count >= 2 /\ Len(qOut.body.recs) >= 2
    /\ ret.status = 200 /\ ret.body.recs = <<>> /\ ret.body.count = 0

----------------------------------------------------------------------------
(* C30: the last two stages keep the records' number, order and keys *)

\* out has a record for each record of in, at the same position, with the
\* same keys, and with the same value under every key for which fixed holds
SameRecords(in, out, fixed(_, _)) ==
    /\ Len(out) = Len(in)
    /\ \A i \in 1..Len(in) :
          /\ Keys(out[i]) = Keys(in[i])
          /\ \A k \in Keys(in[i]) :
                fixed(in[i], k) => out[i].f[k] = in[i].f[k]

NotText(item, k) == item.f[k].t # "str"
NotNoised(item, k) == ~IsNoised(item, k, PNumeric)

\* C30: a status-200 result of redact_names, and one of
\* add_differential_privacy, on a sequence of records has as many records as
\* the input, in the input's order (record i comes from input record i: it
\* has its keys and every value the stage does not rewrite), and its count is
\* that number; so in a successful pipeline run the final count is at most
\* the filter stage's count, which is at most the length of the query page.
C30_RecordsPreserved ==
    /\ (RedactDone /\ rOut.status = 200 /\ RResults.kind = "list") =>
          /\ SameRecords(RResults.items, rOut.body.recs, NotText)
          /\ rOut.body.count = Len(RResults.items)
    /\ (PrivacyDone /\ pOut.status = 200 /\ PResults.kind = "list") =>
          /\ SameRecords(PResults.items, pOut.body.recs, NotNoised)
          /\ pOut.body.count = Len(PResults.items)
    /\ (entry = "pipeline" /\ pc = "done" /\ ret.status = 200) =>
          /\ ret.body.count <= fOut.body.count
          /\ fOut.body.count <= Len(qOut.body.recs)
          /\ ret.body.count = Len(ret.body.recs)

C30_Witness ==
    /\ entry = "pipeline" /\ pc = "done" /\ ret.status = 200
    /\ "data" \in qOut.body.keys
    /\ ret.body.count = 2 /\ ret.body.recs[1] # ret.body.recs[2]
    /\ Keys(ret.body.recs[1]) # Keys(ret.body.recs[2])
    /\ rOut.body.recs # fOut.body.recs
    /\ ret.body.recs # rOut.body.recs

====
